---------------------------- MODULE Spec2Model ----------------------------
(***************************************************************************)
(* A model of the secret-scout scan pipeline: value redaction              *)
(* (core/redaction.py), the per-file policy evaluator (core/policy.py),    *)
(* the scan engine (core/engine.py), the rule loader and validators        *)
(* (rules/), the Git and filesystem enumerators (scanners/), the GitHub    *)
(* client, filter, clone step and orchestrator (scanners/github/), and the *)
(* exit code of the scan command (cli/commands/scan_path.py).              *)
(*                                                                         *)
(* Python strings are sequences of one-character strings, so slicing,      *)
(* stripping, splitting and searching are computed, not assumed.  Each     *)
(* component has its own specification (SpecRedact, SpecPolicy,            *)
(* SpecDedupe, SpecEngine, SpecGithub, SpecWorkspace, SpecClone,           *)
(* SpecRuleset, SpecLoader, SpecFilter, SpecRequest, SpecScanCmd,          *)
(* SpecScanners); the variables of the other components stay at their     *)
(* idle values.                                                            *)
(***************************************************************************)
EXTENDS Integers, Sequences, FiniteSets, TLC

VARIABLES
    \* redact_value(value, keep): the arguments and the returned string
    rv_value, rv_keep, rv_out,
    \* evaluate_file: the candidate's rel_path, what read_text and the
    \* structured parser give for it, the rule set, config.redact, the position
    \* in ruleset.enabled(), the findings list, and whether it has returned
    pol_rel, pol_text, pol_parsed, pol_ruleset, pol_redact, pol_i, pol_findings,
    pol_returned,
    \* _dedupe_findings(findings): the argument and the returned list
    dd_findings, dd_out,
    \* run_scan: the candidate stream, config, baseline and dedupe arguments;
    \* where the call is, cand_list, the loop position, and the findings,
    \* errors and stats built so far
    eng_stream, eng_config, eng_baseline, eng_dedupe, eng_pc, eng_cand_list, eng_i,
    eng_scan,
    \* scan_github: what the client lists, repo_filter, opts, whether on_event
    \* is given; where the call is, the filtered repos, each submitted task,
    \* the events the callback got per repo, the results list, and the
    \* workspace directory on disk with the clones under it
    gh_listing, gh_filter, gh_opts, gh_on_event, gh_pc, gh_repos, gh_task,
    gh_events, gh_results, gh_fs,
    \* clone_repo: the repository, the token, the options and os.environ; where
    \* the call is, the git command line and environment, the error raised
    cl_repo, cl_token, cl_opts, cl_environ, cl_pc, cl_args, cl_env, cl_error,
    \* build_ruleset(rules): the argument, where the call is, and what it returned or raised
    br_rules, br_pc, br_result,
    \* load_ruleset: the rule packs found (builtin, global, repo, extra files); where the call is, the loop position, the packs loaded, the merged rules and the result
    ld_found, ld_pc, ld_i, ld_packs, ld_merged, ld_result,
    \* RepoFilter.apply(repos): the filter, the argument, and the returned list
    rf_filter, rf_repos, rf_out,
    \* GitHubClient._request_json(url): where the call is, the loop variable attempt, the responses got, the pauses slept, and what it returned or raised
    rq_pc, rq_attempt, rq_log, rq_sleeps, rq_result,
    \* scan_cmd: the --fail and --ignore-errors options, the ScanResult of run_scan, and the exit code raised
    cmd_fail, cmd_ignore_errors, cmd_result, cmd_exit,
    \* scan_git_repo and scan_path on one working tree: the files of the tree,
    \* the arguments and config, where the calls are, the merged git listing,
    \* the paths still to iterate, the candidates of each enumerator
    gs_tree, gs_opts, gs_pc, gs_all_paths, gs_rest, gs_yielded, gs_walked

redVars == <<rv_value, rv_keep, rv_out>>
polVars == <<pol_rel, pol_text, pol_parsed, pol_ruleset, pol_redact, pol_i,
             pol_findings, pol_returned>>
ddVars == <<dd_findings, dd_out>>
engVars == <<eng_stream, eng_config, eng_baseline, eng_dedupe, eng_pc, eng_cand_list,
             eng_i, eng_scan>>
ghVars == <<gh_listing, gh_filter, gh_opts, gh_on_event, gh_pc, gh_repos, gh_task,
            gh_events, gh_results, gh_fs>>
cloneVars == <<cl_repo, cl_token, cl_opts, cl_environ, cl_pc, cl_args, cl_env, cl_error>>
rsVars == <<br_rules, br_pc, br_result>>
ldVars == <<ld_found, ld_pc, ld_i, ld_packs, ld_merged, ld_result>>
rfVars == <<rf_filter, rf_repos, rf_out>>
rqVars == <<rq_pc, rq_attempt, rq_log, rq_sleeps, rq_result>>
cmdVars == <<cmd_fail, cmd_ignore_errors, cmd_result, cmd_exit>>
gsVars == <<gs_tree, gs_opts, gs_pc, gs_all_paths, gs_rest, gs_yielded, gs_walked>>
vars == <<redVars, polVars, ddVars, engVars, ghVars, cloneVars, rsVars, ldVars,
         rfVars, rqVars, cmdVars, gsVars>>

(***************************************************************************)
(* Python string helpers                                                   *)
(***************************************************************************)
Min(a, b) == IF a <= b THEN a ELSE b
Max(a, b) == IF a >= b THEN a ELSE b

\* All sequences over S of length 0..n.
SeqsUpTo(S, n) == UNION {[1..k -> S] : k \in 0..n}

\* s[i:] with Python's index rules: a negative i counts from the end and is
\* clamped at 0; i = 0 (also written -0) is the whole string.
PySliceFrom(s, i) ==
    LET start == IF i < 0 THEN Max(Len(s) + i, 0) ELSE Min(i, Len(s))
    IN SubSeq(s, start + 1, Len(s))

\* s[:n] for n >= 0.
PySliceTo(s, n) == SubSeq(s, 1, Min(n, Len(s)))

IsSpace(c) == c \in {" ", "\t"}

RECURSIVE LStrip(_)
LStrip(s) == IF s # <<>> /\ IsSpace(Head(s)) THEN LStrip(Tail(s)) ELSE s

RECURSIVE RStrip(_)
RStrip(s) ==
    IF s # <<>> /\ IsSpace(s[Len(s)]) THEN RStrip(SubSeq(s, 1, Len(s) - 1)) ELSE s

\* str.strip()
Strip(s) == RStrip(LStrip(s))

\* None and Some(x) for Optional[...] fields.
None == <<>>
Some(x) == <<x>>

Range(f) == {f[i] : i \in DOMAIN f}

Lowers == <<"a", "b", "c", "d", "e", "f", "g", "h", "i", "j", "k", "l", "m",
            "n", "o", "p", "q", "r", "s", "t", "u", "v", "w", "x", "y", "z">>
Uppers == <<"A", "B", "C", "D", "E", "F", "G", "H", "I", "J", "K", "L", "M",
            "N", "O", "P", "Q", "R", "S", "T", "U", "V", "W", "X", "Y", "Z">>
Digits == <<"0", "1", "2", "3", "4", "5", "6", "7", "8", "9">>

IsAlpha(c) == c \in Range(Lowers) \cup Range(Uppers)
IsDigit(c) == c \in Range(Digits)
ToLower(c) ==
    IF c \in Range(Uppers) THEN Lowers[CHOOSE i \in DOMAIN Uppers : Uppers[i] = c] ELSE c
ToUpper(c) ==
    IF c \in Range(Lowers) THEN Uppers[CHOOSE i \in DOMAIN Lowers : Lowers[i] = c] ELSE c

\* str.upper() and str.lower()
Upper(s) == [i \in DOMAIN s |-> ToUpper(s[i])]
Lower(s) == [i \in DOMAIN s |-> ToLower(s[i])]

\* s.startswith(p)
StartsWith(s, p) == Len(p) <= Len(s) /\ SubSeq(s, 1, Len(p)) = p

\* str(n) for 0 <= n <= 99.
IntToStr(n) ==
    IF n < 10 THEN <<Digits[n + 1]>>
    ELSE <<Digits[(n \div 10) + 1], Digits[(n % 10) + 1]>>

\* sep.join(parts)
RECURSIVE Join(_, _)
Join(parts, sep) ==
    IF parts = <<>> THEN <<>>
    ELSE IF Len(parts) = 1 THEN parts[1]
    ELSE parts[1] \o sep \o Join(Tail(parts), sep)

LF == "\n"

\* str.splitlines() for LF line ends: no empty last line after a final LF.
RECURSIVE SplitLinesFrom(_, _)
SplitLinesFrom(s, cur) ==
    IF s = <<>> THEN (IF cur = <<>> THEN <<>> ELSE <<cur>>)
    ELSE IF Head(s) = LF THEN <<cur>> \o SplitLinesFrom(Tail(s), <<>>)
    ELSE SplitLinesFrom(Tail(s), Append(cur, Head(s)))

SplitLines(s) == SplitLinesFrom(s, <<>>)

\* The characters of the model in code point order; Ord(c) orders them as
\* Python orders one-character strings.
Ascii == <<"\t", "\n", " ", "#", "$", "*", "+", "-", ".", "/">> \o Digits
         \o <<":", "=", "?">> \o Uppers \o <<"[", "\\", "]", "_">> \o Lowers
         \o <<"{", "}">>
Ord(c) == CHOOSE i \in DOMAIN Ascii : Ascii[i] = c
Ords(s) == [i \in DOMAIN s |-> Ord(s[i])]

\* a < b for two sequences of integers, as Python compares strings (by their
\* Ords) and tuples of integers.
RECURSIVE LexLess(_, _)
LexLess(a, b) ==
    IF b = <<>> THEN FALSE
    ELSE IF a = <<>> THEN TRUE
    ELSE IF Head(a) # Head(b) THEN Head(a) < Head(b)
    ELSE LexLess(Tail(a), Tail(b))

\* a < b for two sort keys: tuples of the same length whose components are
\* sequences of integers.
RECURSIVE KeyLess(_, _)
KeyLess(a, b) ==
    IF a = <<>> \/ b = <<>> THEN FALSE
    ELSE IF Head(a) # Head(b) THEN LexLess(Head(a), Head(b))
    ELSE KeyLess(Tail(a), Tail(b))

\* list.sort(key=...): a stable sort.  ps is a sequence of [key, val]; each
\* element goes before the first element of the sorted rest whose key is
\* greater.
RECURSIVE InsertByKey(_, _)
InsertByKey(sorted, p) ==
    IF sorted = <<>> THEN <<p>>
    ELSE IF KeyLess(p.key, Head(sorted).key) THEN <<p>> \o sorted
    ELSE <<Head(sorted)>> \o InsertByKey(Tail(sorted), p)

RECURSIVE SortPairs(_, _)
SortPairs(ps, acc) ==
    IF ps = <<>> THEN acc ELSE SortPairs(Tail(ps), InsertByKey(acc, Head(ps)))

StableSort(ps) == LET r == SortPairs(ps, <<>>) IN [i \in DOMAIN r |-> r[i].val]

(***************************************************************************)
(* core/matcher.py.  A glob is a string with the wildcards * and ?; a      *)
(* regular expression is a string of literal characters and bracketed      *)
(* character classes, matched ignoring case as re.IGNORECASE does (the     *)
(* flags MULTILINE and DOTALL change nothing for such patterns).           *)
(***************************************************************************)
normalize_rel_path(rel_path) ==
    [i \in DOMAIN rel_path |-> IF rel_path[i] = "\\" THEN "/" ELSE rel_path[i]]

\* fnmatch.fnmatch(s, g) on a POSIX host (case-sensitive; * also spans "/").
RECURSIVE GlobMatch(_, _)
GlobMatch(g, s) ==
    IF g = <<>> THEN s = <<>>
    ELSE IF Head(g) = "*"
         THEN GlobMatch(Tail(g), s) \/ (s # <<>> /\ GlobMatch(g, Tail(s)))
    ELSE IF s = <<>> THEN FALSE
    ELSE (Head(g) = "?" \/ Head(g) = Head(s)) /\ GlobMatch(Tail(g), Tail(s))

any_glob_match(rel_path, globs) ==
    \E i \in DOMAIN globs : GlobMatch(globs[i], normalize_rel_path(rel_path))

is_path_included(rel_path, include_globs, exclude_globs) ==
    LET rp == normalize_rel_path(rel_path)
    IN IF exclude_globs # <<>> /\ any_glob_match(rp, exclude_globs) THEN FALSE
       ELSE IF include_globs = <<>> THEN TRUE
       ELSE any_glob_match(rp, include_globs)

\* A pattern string parsed into character classes: a character other than "["
\* is the class of itself, "[...]" the class of the characters between the
\* brackets (a "]" right after "[" is a member, so "[]" is unterminated).
RECURSIVE ParseRegex(_)
ParseRegex(s) ==
    IF s = <<>> THEN [ok |-> TRUE, classes |-> <<>>]
    ELSE IF Head(s) = "["
         THEN LET closes == {j \in 3..Len(s) : s[j] = "]"}
              IN IF closes = {} THEN [ok |-> FALSE, classes |-> <<>>]
                 ELSE LET j == CHOOSE x \in closes : \A y \in closes : x <= y
                          rest == ParseRegex(SubSeq(s, j + 1, Len(s)))
                      IN [ok |-> rest.ok,
                          classes |-> <<{s[i] : i \in 2..(j - 1)}>> \o rest.classes]
    ELSE LET rest == ParseRegex(Tail(s))
         IN [ok |-> rest.ok, classes |-> <<{Head(s)}>> \o rest.classes]

\* re.compile(pattern) succeeds.
RegexCompiles(pattern) == ParseRegex(pattern).ok

ClassMatches(cls, c) == \E d \in cls : ToLower(d) = ToLower(c)

MatchAt(classes, text, i) ==
    /\ i + Len(classes) - 1 <= Len(text)
    /\ \A j \in DOMAIN classes : ClassMatches(classes[j], text[i + j - 1])

\* regex_search(pattern, text) is not None
regex_search(pattern, text) ==
    \E i \in 1..(Len(text) + 1) : MatchAt(ParseRegex(pattern).classes, text, i)

\* The matched texts m.group(0), leftmost first, non-overlapping.
RECURSIVE FindIterFrom(_, _, _)
FindIterFrom(classes, text, i) ==
    IF i + Len(classes) - 1 > Len(text) THEN <<>>
    ELSE IF MatchAt(classes, text, i)
         THEN <<SubSeq(text, i, i + Len(classes) - 1)>>
              \o FindIterFrom(classes, text, i + Max(Len(classes), 1))
    ELSE FindIterFrom(classes, text, i + 1)

\* regex_finditer(pattern, text)
regex_finditer(pattern, text) == FindIterFrom(ParseRegex(pattern).classes, text, 1)

(***************************************************************************)
(* core/redaction.py                                                       *)
(***************************************************************************)
REDACTED == <<"*", "*", "*", "R", "E", "D", "A", "C", "T", "E", "D", "*", "*", "*">>
ELLIPSIS == "U+2026"

\* redact_value(value, keep): v = value.strip(); the placeholder when v is empty
\* or len(v) <= keep*2 + 2; else v[:keep] + U+2026 + v[-keep:].
redact_value(value, keep) ==
    LET v == Strip(value)
    IN IF v = <<>> THEN REDACTED
       ELSE IF Len(v) <= keep * 2 + 2 THEN REDACTED
       ELSE PySliceTo(v, keep) \o <<ELLIPSIS>> \o PySliceFrom(v, 0 - keep)

\* truncate(value, max_len)
truncate(value, max_len) ==
    IF Len(value) <= max_len THEN value
    ELSE PySliceTo(value, max_len) \o <<ELLIPSIS>>

\* stable_hash(*parts): the digest of the LF-joined parts.  SHA-256 (cut to 24 hex
\* digits) is taken to be injective, so the digest is modelled by its input.
stable_hash(parts) == Join(parts, <<LF>>)

(***************************************************************************)
(* core/policy.py                                                          *)
(***************************************************************************)
DefaultKeep == 4
SampleMaxLen == 160
MinLineLen == 4
PlaintextMinLen == 12

S_filename == <<"f", "i", "l", "e", "n", "a", "m", "e">>
S_content == <<"c", "o", "n", "t", "e", "n", "t">>
S_file == <<"f", "i", "l", "e">>
S_structured == <<"s", "t", "r", "u", "c", "t", "u", "r", "e", "d">>
S_None == <<"N", "o", "n", "e">>

\* Finding(...) of core/models.py, without the message text.
Finding(target, file, kind, rule, line, sample, key, value_hint, match_hash) ==
    [target |-> target, file |-> file, kind |-> kind, rule_id |-> rule.id,
     severity |-> rule.severity, line |-> line, sample |-> sample, key |-> key,
     value_hint |-> value_hint, match_hash |-> match_hash]

_eval_filename_rule(target, rel_path, rule) ==
    LET matched == IF rule.pattern_type = "glob"
                   THEN any_glob_match(rel_path, <<rule.pattern>>)
                   ELSE regex_search(rule.pattern, rel_path)
    IN IF ~matched THEN <<>>
       ELSE <<Finding(target, rel_path, "filename", rule, None, None, None, None,
                      stable_hash(<<rule.id, rel_path, S_filename>>))>>

\* Mutant of _allow_regex_suppresses: re.error ends the loop ("return False")
\* instead of moving on to the next allow regex.
allow_regex_stops_at_error(rule, text) ==
    \E i \in DOMAIN rule.allow_regexes :
        /\ \A j \in 1..i : RegexCompiles(rule.allow_regexes[j])
        /\ regex_search(rule.allow_regexes[i], text)

\* An allow regex that does not compile raises re.error, which is ignored.
_allow_regex_suppresses(rule, text) ==
    \E i \in DOMAIN rule.allow_regexes :
        RegexCompiles(rule.allow_regexes[i]) /\ regex_search(rule.allow_regexes[i], text)

_safe_sample(sample, redact) ==
    LET s == truncate(Strip(sample), SampleMaxLen)
    IN IF redact THEN redact_value(s, DefaultKeep) ELSE s

\* The body of both match loops of _eval_regex_rule: line is None and disamb
\* "file" in file scope, Some(idx) and str(idx) in line scope.  st is the loop
\* state: out, count, and stop once count >= max_matches (break / return out).
RECURSIVE MatchLoop(_, _, _, _, _, _, _, _)
MatchLoop(target, rel_path, rule, redact, line, disamb, ms, st) ==
    IF ms = <<>> \/ st.stop THEN st
    ELSE LET raw == Head(ms)
         IN IF _allow_regex_suppresses(rule, raw)
            THEN MatchLoop(target, rel_path, rule, redact, line, disamb, Tail(ms), st)
            ELSE LET f == Finding(target, rel_path, "content", rule, line,
                                  Some(_safe_sample(raw, redact)), None, None,
                                  stable_hash(<<rule.id, rel_path, S_content, disamb, raw>>))
                     count == st.count + 1
                 IN MatchLoop(target, rel_path, rule, redact, line, disamb, Tail(ms),
                              [out |-> Append(st.out, f), count |-> count,
                               stop |-> count >= rule.max_matches])

RECURSIVE LineLoop(_, _, _, _, _, _, _)
LineLoop(target, rel_path, rule, redact, lines, idx, st) ==
    IF idx > Len(lines) \/ st.stop THEN st
    ELSE LET line == lines[idx]
         IN IF Len(line) < MinLineLen \/ _allow_regex_suppresses(rule, line)
            THEN LineLoop(target, rel_path, rule, redact, lines, idx + 1, st)
            ELSE LineLoop(target, rel_path, rule, redact, lines, idx + 1,
                          MatchLoop(target, rel_path, rule, redact, Some(idx),
                                    IntToStr(idx), regex_finditer(rule.regex, line), st))

_eval_regex_rule(target, rel_path, rule, text, redact) ==
    LET st0 == [out |-> <<>>, count |-> 0, stop |-> FALSE]
    IN IF rule.scope = "file"
       THEN MatchLoop(target, rel_path, rule, redact, None, S_file,
                      regex_finditer(rule.regex, text), st0).out
       ELSE LineLoop(target, rel_path, rule, redact, SplitLines(text), 1, st0).out

\* value is Optional[str]: None, or Some(s).
_looks_plaintext_secret(v) ==
    LET s == Strip(v)
    IN IF s = <<>> THEN FALSE
       ELSE IF StartsWith(s, <<"$", "{">>) \/ StartsWith(s, <<"$">>)
               \/ StartsWith(s, <<"v", "a", "u", "l", "t", ":", "/", "/">>)
            THEN FALSE
       ELSE IF Len(s) < PlaintextMinLen THEN FALSE
       ELSE /\ \E i \in DOMAIN s : IsAlpha(s[i])
            /\ \E i \in DOMAIN s : IsDigit(s[i]) \/ s[i] \in {"_", "-", "+", "/", "=", "."}

\* Mutant of _value_violates_policy: the value is not trimmed.
_value_violates_policy_untrimmed(policy, value) ==
    LET s == IF value = None THEN <<>> ELSE value[1]
    IN CASE policy = "any" -> TRUE
         [] policy = "non_empty" -> s # <<>>
         [] policy = "must_reference_env" -> ~StartsWith(s, <<"$">>)
         [] policy = "must_reference_vault" ->
                ~StartsWith(s, <<"v", "a", "u", "l", "t", ":", "/", "/">>)
         [] policy = "plaintext" -> _looks_plaintext_secret(s)
         [] OTHER -> TRUE

_value_violates_policy(policy, value) ==
    LET s == IF value = None THEN <<>> ELSE Strip(value[1])
    IN CASE policy = "any" -> TRUE
         [] policy = "non_empty" -> s # <<>>
         [] policy = "must_reference_env" ->
                ~(StartsWith(s, <<"$">>) \/ StartsWith(s, <<"$", "{">>))
         [] policy = "must_reference_vault" ->
                ~StartsWith(s, <<"v", "a", "u", "l", "t", ":", "/", "/">>)
         [] policy = "plaintext" -> _looks_plaintext_secret(s)
         [] OTHER -> TRUE

\* str(v)
StrOf(value) == IF value = None THEN S_None ELSE value[1]

\* norm(k) of _eval_structured_rule
NormKey(rule, k) == IF rule.case_insensitive_keys THEN Upper(k) ELSE k

\* Mutant of KeyPassesGates: the forbidden gate is applied also when
\* forbidden_keys is empty.
KeyPassesGatesForbiddenAlways(rule, key) ==
    LET forbidden == {NormKey(rule, k) : k \in Range(rule.forbidden_keys)}
        allowed == {NormKey(rule, k) : k \in Range(rule.allowed_keys)}
        nk == NormKey(rule, key)
    IN nk \notin allowed /\ nk \in forbidden

\* The gates a key passes before the value policy is applied.
KeyPassesGates(rule, key) ==
    LET forbidden == {NormKey(rule, k) : k \in Range(rule.forbidden_keys)}
        allowed == IF rule.allowed_keys # <<>>
                   THEN {NormKey(rule, k) : k \in Range(rule.allowed_keys)} ELSE {}
        nk == NormKey(rule, key)
    IN /\ ~(allowed # {} /\ nk \in allowed)
       /\ ~(forbidden # {} /\ nk \notin forbidden)

RECURSIVE StructuredLoop(_, _, _, _, _, _)
StructuredLoop(target, rel_path, rule, redact, items, out) ==
    IF items = <<>> THEN out
    ELSE LET key == Head(items).k
             v == Head(items).v
             emit == KeyPassesGates(rule, key) /\ _value_violates_policy(rule.value_policy, v)
             hint == IF v = None THEN None ELSE Some(_safe_sample(StrOf(v), redact))
             f == Finding(target, rel_path, "structured", rule, None, None, Some(key), hint,
                          stable_hash(<<rule.id, rel_path, S_structured, key, StrOf(v)>>))
         IN StructuredLoop(target, rel_path, rule, redact, Tail(items),
                           IF emit THEN Append(out, f) ELSE out)

\* Mutant of _eval_structured_rule: the elements of a non-mapping are read
\* as if they were the items of a mapping.
_eval_structured_rule_reads_nondict(target, rel_path, rule, parsed, redact) ==
    IF parsed.kind = "raise" THEN <<>>
    ELSE StructuredLoop(target, rel_path, rule, redact,
                        IF parsed.kind = "falsy" THEN <<>> ELSE parsed.items, <<>>)

\* parsed is what parser(text) does: it raises, returns something falsy (then
\* "or {}" makes it the empty mapping), a non-mapping, or a mapping (its items
\* in iteration order).
_eval_structured_rule(target, rel_path, rule, parsed, redact) ==
    IF parsed.kind = "raise" THEN <<>>
    ELSE IF parsed.kind = "nondict" THEN <<>>
    ELSE StructuredLoop(target, rel_path, rule, redact,
                        IF parsed.kind = "falsy" THEN <<>> ELSE parsed.items, <<>>)

\* Whether the loop body of evaluate_file leaves the rule at its path filters.
RuleFilteredOut(rel, rule) ==
    \/ ~is_path_included(rel, rule.include, rule.exclude)
    \/ (rule.allow_paths # <<>> /\ any_glob_match(rel, rule.allow_paths))

\* One pass of evaluate_file's loop body for one rule: the findings it adds.
\* text is read_text(candidate) (None or Some(s)); parsed.kind = "noparser" when
\* structured_parsers is None or has no parser for the rule's format.
EvalRule(target, rel, rule, text, parsed, redact) ==
    IF RuleFilteredOut(rel, rule) THEN <<>>
    ELSE IF rule.type = "filename" THEN _eval_filename_rule(target, rel, rule)
    ELSE IF rule.type = "regex"
         THEN IF text = None \/ text = Some(<<>>) THEN <<>>
              ELSE _eval_regex_rule(target, rel, rule, text[1], redact)
    ELSE IF parsed.kind = "noparser" THEN <<>>
    ELSE IF text = None \/ text = Some(<<>>) THEN <<>>
    ELSE _eval_structured_rule(target, rel, rule, parsed, redact)

\* ruleset.enabled()
Enabled(ruleset) == SelectSeq(ruleset, LAMBDA r : r.enabled)

RECURSIVE EvalRules(_, _, _, _, _, _)
EvalRules(target, rel, rules, text, parsed, redact) ==
    IF rules = <<>> THEN <<>>
    ELSE EvalRule(target, rel, Head(rules), text, parsed, redact)
         \o EvalRules(target, rel, Tail(rules), text, parsed, redact)

\* evaluate_file(target_name, candidate, ruleset, config, read_text, structured_parsers)
evaluate_file(target, rel_path, ruleset, text, parsed, redact) ==
    EvalRules(target, normalize_rel_path(rel_path), Enabled(ruleset), text, parsed, redact)

(***************************************************************************)
(* core/engine.py                                                          *)
(***************************************************************************)
\* f.line or 0, and str(f.line or "")
LineOrZero(line) == IF line = None THEN 0 ELSE line[1]
LineOrEmpty(line) == IF line = None \/ line = Some(0) THEN <<>> ELSE IntToStr(line[1])

\* Mutant of DedupeKey: the line is left out of the key.
DedupeKeyNoLine(f) == <<f.target, f.file, f.rule_id, f.match_hash>>

\* The key of _dedupe_findings
DedupeKey(f) == <<f.target, f.file, f.rule_id, LineOrEmpty(f.line), f.match_hash>>

\* Mutant of DedupeSortKey: the file is left out of the sort key.
DedupeSortKeyNoFile(f) ==
    <<Ords(f.rule_id), <<LineOrZero(f.line)>>, Ords(f.match_hash)>>

\* The key of the final out.sort
DedupeSortKey(f) ==
    <<Ords(f.file), Ords(f.rule_id), <<LineOrZero(f.line)>>, Ords(f.match_hash)>>

\* The loop of _dedupe_findings: out keeps the first finding of each key.
RECURSIVE DedupeLoop(_, _, _)
DedupeLoop(findings, seen, out) ==
    IF findings = <<>> THEN out
    ELSE LET key == DedupeKey(Head(findings))
         IN IF key \in seen THEN DedupeLoop(Tail(findings), seen, out)
            ELSE DedupeLoop(Tail(findings), seen \cup {key}, Append(out, Head(findings)))

_dedupe_findings(findings) ==
    LET out == DedupeLoop(findings, {}, <<>>)
    IN StableSort([i \in DOMAIN out |-> [key |-> DedupeSortKey(out[i]), val |-> out[i]]])

\* ScanError(target, message, detail); a message is its fixed text and the
\* relative path formatted into it.
ScanError(target, text, rel_path, detail) ==
    [target |-> target, message |-> <<text, rel_path>>, detail |-> detail]

NewStats ==
    [files_considered |-> 0, files_scanned |-> 0, files_skipped_binary |-> 0,
     files_skipped_too_large |-> 0, findings |-> 0]

\* What run_scan holds while it runs: the findings list, result.errors,
\* result.stats, and (for the claims) the candidates evaluate_file was called for.
NewScan == [findings |-> <<>>, errors |-> <<>>, stats |-> NewStats, evaluated |-> <<>>]

\* Mutant of SortCandidates: the candidate list is left in stream order.
SortCandidatesSkipped(cands) == cands

\* cand_list.sort(key=lambda c: c.rel_path or "")
SortCandidates(cands) ==
    StableSort([i \in DOMAIN cands |-> [key |-> <<Ords(cands[i].rel_path)>>, val |-> cands[i]]])

\* cand_list = list(candidates), sorted when config.deterministic
Materialize(stream, config) ==
    IF config.deterministic THEN SortCandidates(stream) ELSE stream

\* Mutant of TooLarge: the size limit is exclusive.
TooLargeInclusive(c, config) == c.size_bytes >= config.max_file_bytes

TooLarge(c, config) == c.size_bytes > config.max_file_bytes

\* Mutant of EvaluateRaised: the exception is swallowed without a ScanError.
EvaluateRaisedSilently(st, c, target) == st

\* Mutant of EvaluateRaised: a candidate whose evaluation raised is not
\* counted as scanned.
EvaluateRaisedUncounted(st, c, target) ==
    [st EXCEPT !.stats.files_scanned = @ - 1,
               !.errors = Append(@, ScanError(target, "Failed scanning file: ",
                                              c.rel_path, c.eval.detail))]

\* The except clause of the loop body.
EvaluateRaised(st, c, target) ==
    [st EXCEPT !.errors = Append(@, ScanError(target, "Failed scanning file: ",
                                              c.rel_path, c.eval.detail))]

\* One pass of run_scan's loop body for candidate c.  c.eval is what
\* evaluate_file does for c: it raises (with str(e) = detail) or returns findings.
ScanStep(st, c, config, target) ==
    IF c.is_binary
    THEN [st EXCEPT !.stats.files_skipped_binary = @ + 1]
    ELSE IF TooLarge(c, config)
    THEN [st EXCEPT !.stats.files_skipped_too_large = @ + 1]
    ELSE LET called == [st EXCEPT !.stats.files_scanned = @ + 1,
                                  !.evaluated = Append(@, c.rel_path)]
         IN IF c.eval.raises THEN EvaluateRaised(called, c, target)
            ELSE [called EXCEPT !.findings = @ \o c.eval.findings]

\* baseline.suppress(findings) for a baseline that knows a set of match hashes
BaselineSuppress(baseline, findings) ==
    SelectSeq(findings, LAMBDA f : f.match_hash \notin baseline.known)

\* Mutant of ApplyBaseline: a raising suppress also loses the findings.
ApplyBaselineLosesFindings(st, baseline, target) ==
    IF baseline.kind = "none" THEN st
    ELSE IF baseline.kind = "raises"
    THEN [st EXCEPT !.findings = <<>>,
                    !.errors = Append(@, ScanError(target, "Baseline suppression failed",
                                                   <<>>, baseline.detail))]
    ELSE [st EXCEPT !.findings = BaselineSuppress(baseline, @)]

\* The baseline block: baseline is None (kind "none"), or suppress raises, or
\* its result replaces findings.
ApplyBaseline(st, baseline, target) ==
    IF baseline.kind = "none" THEN st
    ELSE IF baseline.kind = "raises"
    THEN [st EXCEPT !.errors = Append(@, ScanError(target, "Baseline suppression failed",
                                                   <<>>, baseline.detail))]
    ELSE [st EXCEPT !.findings = BaselineSuppress(baseline, @)]

\* The optional dedupe and the assignments to result.findings and stats.findings
FinishScan(st, dedupe) ==
    LET findings == IF dedupe THEN _dedupe_findings(st.findings) ELSE st.findings
    IN [st EXCEPT !.findings = findings, !.stats.findings = Len(findings)]

RECURSIVE ScanLoop(_, _, _, _)
ScanLoop(cands, st, config, target) ==
    IF cands = <<>> THEN st
    ELSE ScanLoop(Tail(cands), ScanStep(st, Head(cands), config, target), config, target)

\* run_scan(target, candidates, ruleset, config, read_text, baseline, ..., dedupe)
run_scan(target, stream, config, baseline, dedupe) ==
    LET cand_list == Materialize(stream, config)
        st0 == [NewScan EXCEPT !.stats.files_considered = Len(cand_list)]
    IN FinishScan(ApplyBaseline(ScanLoop(cand_list, st0, config, target), baseline, target),
                  dedupe)

(***************************************************************************)
(* The inputs of evaluate_file                                             *)
(***************************************************************************)
MaxLines == 2
MaxMatches == 2

TargetName == <<"t">>

\* rel_path "s/k", and "f\k", which normalizes to "f/k"
PolicyPaths == {<<"s", "/", "k">>, <<"f", "\\", "k">>}
\* glob "f/*"
G_f == <<"f", "/", "*">>

\* The values RegexRule.max_matches can take: the rule model of core/models.py
\* is not among the sources, and the specification gives the cap no lower limit.
MaxMatchesValues == 0..MaxMatches

BaseRule(id, type) ==
    [id |-> id, enabled |-> TRUE, severity |-> "high", type |-> type,
     include |-> <<>>, exclude |-> <<>>, allow_paths |-> <<>>, allow_regexes |-> <<>>,
     pattern_type |-> "glob", pattern |-> <<>>,
     regex |-> <<>>, scope |-> "line", max_matches |-> 1,
     forbidden_keys |-> <<>>, allowed_keys |-> <<>>, case_insensitive_keys |-> TRUE,
     value_policy |-> "any"]

\* The regex k[12], the allow regexes 1 and #, and [] (which does not compile).
RX_k == <<"k", "[", "1", "2", "]">>
A_1 == <<"1">>
A_hash == <<"#">>
A_bad == <<"[", "]">>

RegexRules ==
    {[BaseRule(<<"R">>, "regex") EXCEPT !.regex = RX_k, !.scope = sc, !.max_matches = n,
                                        !.allow_regexes = ar, !.allow_paths = ap] :
        sc \in {"file", "line"}, n \in MaxMatchesValues,
        ar \in {<<>>, <<A_1>>, <<A_bad, A_hash>>}, ap \in {<<>>, <<G_f>>}}

\* Lines "k1k2", "k2k2", "#K2k" and the short line "k2".
PolicyLines == {<<"k", "1", "k", "2">>, <<"k", "2", "k", "2">>,
                <<"#", "K", "2", "k">>, <<"k", "2">>}

PolicyTexts == {Some(Join(ls, <<LF>>)) : ls \in SeqsUpTo(PolicyLines, MaxLines)} \cup {None}

\* Keys K, k and p with allowed_keys (K) or none and forbidden_keys (p) or none.
StructuredRules ==
    {[BaseRule(<<"R">>, "structured") EXCEPT !.allowed_keys = ak, !.forbidden_keys = fk,
                                             !.case_insensitive_keys = ci,
                                             !.value_policy = vp] :
        ak \in {<<>>, <<<<"K">>>>}, fk \in {<<>>, <<<<"p">>>>}, ci \in BOOLEAN,
        vp \in {"any", "non_empty", "must_reference_env", "must_reference_vault",
                "plaintext"}}

PolicyKeys == {<<"K">>, <<"k">>, <<"p">>}
\* null, "$V" and "hunter2"
PolicyValues == {None, Some(<<"$", "V">>), Some(<<"h", "u", "n", "t", "e", "r", "2">>)}
PolicyItems == {[k |-> k, v |-> v] : k \in PolicyKeys, v \in PolicyValues}

\* A parser result that is not a mapping: the list [("p", "hunter2")].
PairList ==
    [kind |-> "nondict",
     items |-> <<[k |-> <<"p">>, v |-> Some(<<"h", "u", "n", "t", "e", "r", "2">>)]>>]

\* Mappings of at most two keys, and the other things a parser call can do.
ParsedResults ==
    {[kind |-> "dict", items |-> its] :
        its \in {s \in SeqsUpTo(PolicyItems, 2) : Len(s) = 2 => s[1].k # s[2].k}}
    \cup {[kind |-> k, items |-> <<>>] : k \in {"raise", "nondict", "falsy", "noparser"}}
    \cup {PairList}

\* Values for the value_policy table: the empty string, blanks, " $V", "${V}", "vault://k",
\* " vault://k", 12 characters with a digit, 11 characters, 12 letters,
\* 12 digits, 12 with ".", 12 starting with "$", 12 starting with
\* "vault://", 11 characters between blanks, 12 characters after a blank
TableValues ==
    { Some(<<>>),
      Some(<<" ", " ">>),
      Some(<<" ", "$", "V">>),
      Some(<<"$", "{", "V", "}">>),
      Some(<<"v", "a", "u", "l", "t", ":", "/", "/", "k">>),
      Some(<<" ", "v", "a", "u", "l", "t", ":", "/", "/", "k">>),
      Some(<<"a", "b", "c", "d", "e", "f", "g", "h", "i", "j", "k", "1">>),
      Some(<<"a", "b", "c", "d", "e", "f", "g", "h", "i", "j", "1">>),
      Some(<<"a", "b", "c", "d", "e", "f", "g", "h", "i", "j", "k", "l">>),
      Some(<<"1", "2", "3", "4", "5", "6", "7", "8", "9", "0", "1", "2">>),
      Some(<<"a", "b", "c", "d", "e", "f", "g", "h", "i", "j", "k", ".">>),
      Some(<<"$", "b", "c", "d", "e", "f", "g", "h", "i", "j", "k", "1">>),
      Some(<<"v", "a", "u", "l", "t", ":", "/", "/", "a", "b", "c", "1">>),
      Some(<<" ", "a", "b", "c", "d", "e", "f", "g", "h", "i", "j", "1", " ">>),
      Some(<<" ", "a", "b", "c", "d", "e", "f", "g", "h", "i", "j", "k", "1">>)}

\* The mapping {"a\nb": "c", "a": "b\nc"}, as a YAML or JSON file can hold it.
MultilineMapping ==
    [kind |-> "dict",
     items |-> <<[k |-> <<"a", LF, "b">>, v |-> Some(<<"c">>)],
                 [k |-> <<"a">>, v |-> Some(<<"b", LF, "c">>)]>>]

\* A mapping with the single key p and a value of the table.
TableResults ==
    {[kind |-> "dict", items |-> <<[k |-> <<"p">>, v |-> v]>>] : v \in TableValues}

FilenameRules ==
    {[BaseRule(<<"R">>, "filename") EXCEPT !.pattern_type = pt.t, !.pattern = pt.p,
                                           !.allow_paths = ap] :
        pt \in {[t |-> "glob", p |-> <<"s", "/", "*">>], [t |-> "glob", p |-> <<"*", "k">>],
                [t |-> "regex", p |-> <<"/", "k">>], [t |-> "regex", p |-> <<"x">>]},
        ap \in {<<>>, <<G_f>>}}

EnvText == Some(<<"K", "=", "v">>)
NoParse == [kind |-> "noparser", items |-> <<>>]

PolicyScenarios ==
    {[rule |-> r, text |-> t, parsed |-> NoParse] : r \in RegexRules, t \in PolicyTexts}
    \cup {[rule |-> r, text |-> EnvText, parsed |-> p] :
             r \in StructuredRules, p \in ParsedResults}
    \cup {[rule |-> r, text |-> EnvText, parsed |-> p] :
             r \in StructuredRules, p \in TableResults \cup {MultilineMapping}}
    \cup {[rule |-> r, text |-> None, parsed |-> [kind |-> "falsy", items |-> <<>>]] :
             r \in StructuredRules}
    \cup {[rule |-> r, text |-> t, parsed |-> NoParse] :
             r \in FilenameRules, t \in {None, EnvText}}

\* A filename rule that matches every path of the model, and a disabled regex rule.
RuleBefore == [BaseRule(<<"F">>, "filename") EXCEPT !.pattern = <<"*">>, !.severity = "critical"]
RuleDisabled == [BaseRule(<<"D">>, "regex") EXCEPT !.regex = RX_k, !.enabled = FALSE]
\* A filename rule after the rule under study; it matches every path too.
RuleAfter == [BaseRule(<<"G">>, "filename") EXCEPT !.pattern = <<"*">>]

\* The rule sets evaluate_file is given: the rule alone, after other rules,
\* and between two rules.
PolicyRuleSets(rule) ==
    {<<rule>>, <<RuleBefore, RuleDisabled, rule>>, <<RuleBefore, rule, RuleAfter>>}

PolicyIdle ==
    /\ pol_rel = <<>> /\ pol_text = None /\ pol_parsed = NoParse /\ pol_ruleset = <<>>
    /\ pol_redact = TRUE /\ pol_i = 1 /\ pol_findings = <<>> /\ pol_returned = FALSE

PolicyInputs ==
    \E sc \in PolicyScenarios :
        /\ pol_rel \in PolicyPaths
        /\ pol_text = sc.text
        /\ pol_parsed = sc.parsed
        /\ pol_ruleset \in PolicyRuleSets(sc.rule)
        /\ pol_redact \in BOOLEAN
        /\ pol_i = 1 /\ pol_findings = <<>> /\ pol_returned = FALSE

\* Bounds of the redaction inputs.
MaxKeep == 2
MaxValueLen == 7
RedactChars == {"a", "b", " "}

RedactIdle == rv_value = <<>> /\ rv_keep = 0 /\ rv_out = None

RedactInputs ==
    /\ rv_value \in SeqsUpTo(RedactChars, MaxValueLen)
    /\ rv_keep \in 0..MaxKeep
    /\ rv_out = None

\* A call redact_value(rv_value, keep=rv_keep).
RedactValueCall ==
    /\ rv_out = None
    /\ rv_out' = Some(redact_value(rv_value, rv_keep))
    /\ UNCHANGED <<rv_value, rv_keep, polVars, ddVars, engVars, ghVars, cloneVars, rsVars,
                   ldVars, rfVars, rqVars, cmdVars, gsVars>>

(***************************************************************************)
(* evaluate_file, one pass of its loop over ruleset.enabled() per step     *)
(***************************************************************************)
PolRules == Enabled(pol_ruleset)
PolRel == normalize_rel_path(pol_rel)

PolStep(rule) ==
    /\ pol_findings' = pol_findings
           \o EvalRule(TargetName, PolRel, rule, pol_text, pol_parsed, pol_redact)
    /\ pol_i' = pol_i + 1
    /\ UNCHANGED <<pol_rel, pol_text, pol_parsed, pol_ruleset, pol_redact, pol_returned,
                   redVars, ddVars, engVars, ghVars, cloneVars, rsVars, ldVars, rfVars,
                   rqVars, cmdVars, gsVars>>

PolLooping == pol_ruleset # <<>> /\ ~pol_returned /\ pol_i <= Len(PolRules)

\* "continue" at the include/exclude filter or at allow_paths
RuleSkippedByPath ==
    /\ PolLooping
    /\ RuleFilteredOut(PolRel, PolRules[pol_i])
    /\ PolStep(PolRules[pol_i])

FilenameRuleStep ==
    /\ PolLooping
    /\ ~RuleFilteredOut(PolRel, PolRules[pol_i])
    /\ PolRules[pol_i].type = "filename"
    /\ PolStep(PolRules[pol_i])

RegexRuleStep ==
    /\ PolLooping
    /\ ~RuleFilteredOut(PolRel, PolRules[pol_i])
    /\ PolRules[pol_i].type = "regex"
    /\ PolStep(PolRules[pol_i])

StructuredRuleStep ==
    /\ PolLooping
    /\ ~RuleFilteredOut(PolRel, PolRules[pol_i])
    /\ PolRules[pol_i].type = "structured"
    /\ PolStep(PolRules[pol_i])

EvaluateFileReturn ==
    /\ pol_ruleset # <<>> /\ ~pol_returned /\ pol_i > Len(PolRules)
    /\ pol_returned' = TRUE
    /\ UNCHANGED <<pol_rel, pol_text, pol_parsed, pol_ruleset, pol_redact, pol_i,
                   pol_findings, redVars, ddVars, engVars, ghVars, cloneVars, rsVars,
                   ldVars, rfVars, rqVars, cmdVars, gsVars>>

(***************************************************************************)
(* _dedupe_findings on lists of findings                                   *)
(***************************************************************************)
MaxFindings == 3

\* A content finding as the regex rules build them.
EngFinding(target, file, rule_id, line, match_hash, sample) ==
    Finding(target, file, "content", BaseRule(rule_id, "regex"), line, Some(sample),
            None, None, match_hash)

BaseFinding == EngFinding(TargetName, <<"a">>, <<"r", "1">>, Some(1), <<"h", "1">>, <<"x">>)

\* BaseFinding, a finding that differs from it in one key component (for each
\* component), and one that differs in the sample only.  Lines are None or
\* 1-based, and hashes are not empty, as evaluate_file produces them.
DedupeFindings ==
    {BaseFinding,
     [BaseFinding EXCEPT !.target = <<"u">>],
     [BaseFinding EXCEPT !.file = <<"b">>],
     [BaseFinding EXCEPT !.rule_id = <<"r", "2">>],
     [BaseFinding EXCEPT !.line = None],
     [BaseFinding EXCEPT !.line = Some(2)],
     [BaseFinding EXCEPT !.match_hash = <<"h", "2">>],
     [BaseFinding EXCEPT !.sample = Some(<<"y">>)]}

DedupeIdle == dd_findings = <<>> /\ dd_out = None

DedupeInputs ==
    /\ dd_findings \in SeqsUpTo(DedupeFindings, MaxFindings)
    /\ dd_out = None

\* A call _dedupe_findings(dd_findings).
DedupeFindingsCall ==
    /\ dd_out = None
    /\ dd_out' = Some(_dedupe_findings(dd_findings))
    /\ UNCHANGED <<dd_findings, redVars, polVars, engVars, ghVars, cloneVars, rsVars, ldVars,
                   rfVars, rqVars, cmdVars, gsVars>>

(***************************************************************************)
(* run_scan, one candidate per step                                        *)
(***************************************************************************)
MaxCandidates == 2
MaxFileBytes == 2

EnginePaths == {<<"a">>, <<"b">>, <<"c">>}

EvalRaises == [raises |-> TRUE, detail |-> "cannot read", findings |-> <<>>]
EvalReturns(findings) == [raises |-> FALSE, detail |-> "", findings |-> findings]

\* evaluate_file results for the file p: three findings out of sort order, the
\* last a repeat of the second with another sample; and one finding without a line.
FindingsA(target, p) ==
    <<EngFinding(target, p, <<"r", "2">>, Some(2), <<"h", "2">>, <<"x">>),
      EngFinding(target, p, <<"r", "1">>, Some(1), <<"h", "1">>, <<"x">>),
      EngFinding(target, p, <<"r", "1">>, Some(1), <<"h", "1">>, <<"y">>)>>
FindingsB(target, p) ==
    <<EngFinding(target, p, <<"r", "1">>, None, <<"h", "1">>, <<"x">>)>>

FileCandidate(rel_path, size_bytes, is_binary, eval) ==
    [rel_path |-> rel_path, size_bytes |-> size_bytes, is_binary |-> is_binary,
     eval |-> eval]

\* The candidates a scanner can yield for the file p: binary or text, below, at
\* and above config.max_file_bytes.
EngineCandidates(target, p) ==
    {FileCandidate(p, MaxFileBytes, TRUE, EvalReturns(FindingsA(target, p))),
     FileCandidate(p, MaxFileBytes + 1, TRUE, EvalReturns(FindingsA(target, p))),
     FileCandidate(p, MaxFileBytes + 1, FALSE, EvalReturns(FindingsA(target, p))),
     FileCandidate(p, MaxFileBytes, FALSE, EvalReturns(FindingsA(target, p))),
     FileCandidate(p, MaxFileBytes - 1, FALSE, EvalReturns(FindingsB(target, p))),
     FileCandidate(p, MaxFileBytes - 1, FALSE, EvalRaises)}

\* Streams of candidates: one rel_path is one file, so two candidates with the
\* same rel_path are the same candidate.
EngineStreams ==
    {s \in SeqsUpTo(UNION {EngineCandidates(TargetName, p) : p \in EnginePaths}, MaxCandidates) :
        \A i, j \in DOMAIN s : s[i].rel_path = s[j].rel_path => s[i] = s[j]}

\* baseline=None, a baseline whose suppress raises, one that knows the hash h1
EngineBaselines ==
    {[kind |-> "none", detail |-> "", known |-> {}],
     [kind |-> "raises", detail |-> "bad baseline", known |-> {}],
     [kind |-> "suppresses", detail |-> "", known |-> {<<"h", "1">>}]}

EngineIdle ==
    /\ eng_stream = <<>>
    /\ eng_config = [max_file_bytes |-> MaxFileBytes, deterministic |-> TRUE]
    /\ eng_baseline = [kind |-> "none", detail |-> "", known |-> {}]
    /\ eng_dedupe = TRUE
    /\ eng_pc = "idle" /\ eng_cand_list = <<>> /\ eng_i = 1 /\ eng_scan = NewScan

EngineInputs ==
    /\ eng_stream \in EngineStreams
    /\ eng_config \in [max_file_bytes : {MaxFileBytes}, deterministic : BOOLEAN]
    /\ eng_baseline \in EngineBaselines
    /\ eng_dedupe \in BOOLEAN
    /\ eng_pc = "start" /\ eng_cand_list = <<>> /\ eng_i = 1 /\ eng_scan = NewScan

engInputs == <<eng_stream, eng_config, eng_baseline, eng_dedupe>>

\* cand_list = list(candidates), the optional sort, and files_considered
MaterializeCandidates ==
    /\ eng_pc = "start"
    /\ eng_cand_list' = Materialize(eng_stream, eng_config)
    /\ eng_scan' = [eng_scan EXCEPT !.stats.files_considered = Len(eng_cand_list')]
    /\ eng_pc' = "loop"
    /\ UNCHANGED <<engInputs, eng_i, redVars, polVars, ddVars, ghVars, cloneVars, rsVars,
                   ldVars, rfVars, rqVars, cmdVars, gsVars>>

EngLooping == eng_pc = "loop" /\ eng_i <= Len(eng_cand_list)
EngCandidate == eng_cand_list[eng_i]

EngStep ==
    /\ eng_scan' = ScanStep(eng_scan, EngCandidate, eng_config, TargetName)
    /\ eng_i' = eng_i + 1
    /\ UNCHANGED <<engInputs, eng_pc, eng_cand_list, redVars, polVars, ddVars, ghVars,
                   cloneVars, rsVars, ldVars, rfVars, rqVars, cmdVars, gsVars>>

SkipBinary ==
    /\ EngLooping
    /\ EngCandidate.is_binary
    /\ EngStep

SkipTooLarge ==
    /\ EngLooping
    /\ ~EngCandidate.is_binary
    /\ TooLarge(EngCandidate, eng_config)
    /\ EngStep

EvaluateFileReturns ==
    /\ EngLooping
    /\ ~EngCandidate.is_binary
    /\ ~TooLarge(EngCandidate, eng_config)
    /\ ~EngCandidate.eval.raises
    /\ EngStep

EvaluateFileRaises ==
    /\ EngLooping
    /\ ~EngCandidate.is_binary
    /\ ~TooLarge(EngCandidate, eng_config)
    /\ EngCandidate.eval.raises
    /\ EngStep

EngBaselineStep(kind) ==
    /\ eng_pc = "loop" /\ eng_i > Len(eng_cand_list)
    /\ eng_baseline.kind = kind
    /\ eng_scan' = ApplyBaseline(eng_scan, eng_baseline, TargetName)
    /\ eng_pc' = "finish"
    /\ UNCHANGED <<engInputs, eng_cand_list, eng_i, redVars, polVars, ddVars, ghVars,
                   cloneVars, rsVars, ldVars, rfVars, rqVars, cmdVars, gsVars>>

BaselineAbsent == EngBaselineStep("none")
BaselineSuppresses == EngBaselineStep("suppresses")
BaselineRaises == EngBaselineStep("raises")

EngReturn(dedupe) ==
    /\ eng_pc = "finish"
    /\ eng_dedupe = dedupe
    /\ eng_scan' = FinishScan(eng_scan, eng_dedupe)
    /\ eng_pc' = "returned"
    /\ UNCHANGED <<engInputs, eng_cand_list, eng_i, redVars, polVars, ddVars, ghVars,
                   cloneVars, rsVars, ldVars, rfVars, rqVars, cmdVars, gsVars>>

ReturnDeduped == EngReturn(TRUE)
ReturnAsCollected == EngReturn(FALSE)

(***************************************************************************)
(* scan_github: RepoFilter.apply, the worker tasks and the collecting loop *)
(***************************************************************************)
MaxRepos == 2
MaxConcurrency == 2

RepoInfo(id, owner_login, name, archived) ==
    [id |-> id, name |-> name, full_name |-> owner_login \o <<"/">> \o name,
     owner_login |-> owner_login, archived |-> archived, fork |-> FALSE,
     disabled |-> FALSE]

\* name = r.full_name or f"{r.owner_login}/{r.name}"
RepoName(r) ==
    IF r.full_name # <<>> THEN r.full_name ELSE r.owner_login \o <<"/">> \o r.name

\* The body of the loop of RepoFilter.apply: TRUE when r is appended to out.
RepoPasses(flt, r) ==
    LET name == RepoName(r)
        key == Lower(name)
        allow == {Lower(flt.repos[i]) : i \in DOMAIN flt.repos}
    IN /\ ~(allow # {} /\ key \notin allow)
       /\ ~(~flt.include_archived /\ r.archived)
       /\ ~(~flt.include_forks /\ r.fork)
       /\ ~(~flt.include_disabled /\ r.disabled)
       /\ ~(flt.exclude # <<>> /\ any_glob_match(normalize_rel_path(name), flt.exclude))
       /\ ~(flt.include # <<>> /\ ~any_glob_match(normalize_rel_path(name), flt.include))

\* RepoFilter.apply(repos): the filter, the sort by (full_name, id), max_repos
RepoFilterApply(flt, repos) ==
    LET out == SelectSeq(repos, LAMBDA r : RepoPasses(flt, r))
        sorted == StableSort([i \in DOMAIN out |->
                      [key |-> <<Ords(out[i].full_name), <<out[i].id>>>>, val |-> out[i]]])
    IN IF flt.max_repos = None THEN sorted
       ELSE IF flt.max_repos[1] >= 0 THEN PySliceTo(sorted, flt.max_repos[1])
       ELSE SubSeq(sorted, 1, Max(Len(sorted) + flt.max_repos[1], 0))

\* The ScanResult of a run_scan for the target.
ScanResult(target, scan) ==
    [target |-> target, findings |-> scan.findings, errors |-> scan.errors,
     stats |-> scan.stats]

\* Mutant of FailedRepoResult: the failure leaves no ScanError.
FailedRepoResultWithoutError(name, detail) ==
    [target |-> name, findings |-> <<>>, errors |-> <<>>, stats |-> NewStats]

\* The ScanResult the except clause of the collecting loop builds.
FailedRepoResult(name, detail) ==
    [target |-> name, findings |-> <<>>,
     errors |-> <<ScanError(name, "GitHub repo scan failed", <<>>, detail)>>,
     stats |-> NewStats]

\* Mutant of Emit: the callback is never called.
EmitNothing(events, on_event, event) == events

\* "if on_event: on_event(event, repo.full_name, ...)": the callback gets the
\* event and returns.
Emit(events, on_event, event) == IF on_event THEN Append(events, event) ELSE events

\* The repositories the client can list, all with distinct ids and names;
\* o/b is archived.
GithubRepos ==
    {RepoInfo(1, <<"o">>, <<"a">>, FALSE),
     RepoInfo(2, <<"o">>, <<"b">>, TRUE),
     RepoInfo(3, <<"O">>, <<"c">>, FALSE)}

GithubListings ==
    {l \in SeqsUpTo(GithubRepos, MaxRepos) : \A i, j \in DOMAIN l : l[i] = l[j] => i = j}

DefaultFilter ==
    [include |-> <<>>, exclude |-> <<>>, repos |-> <<>>, include_archived |-> FALSE,
     include_forks |-> FALSE, include_disabled |-> FALSE, max_repos |-> None]

GithubFilters ==
    {DefaultFilter,
     [DefaultFilter EXCEPT !.include_archived = TRUE],
     [DefaultFilter EXCEPT !.include_archived = TRUE, !.repos = <<<<"o", "/", "c">>>>],
     [DefaultFilter EXCEPT !.include_archived = TRUE, !.include = <<<<"o", "/", "*">>>>,
                           !.exclude = <<<<"*", "/", "a">>>>],
     [DefaultFilter EXCEPT !.include_archived = TRUE, !.max_repos = Some(1)]}

\* GitHubScanOptions with the defaults tmp_dir = None, keep_clones = False
GithubOptions ==
    {[org |-> org, user |-> user, concurrency |-> c, tmp_dir |-> None,
      keep_clones |-> FALSE] :
        org \in {None, Some(<<"o">>)}, user \in {None, Some(<<"u">>)},
        c \in 0..MaxConcurrency}

\* The options that choose the workspace: a caller's tmp_dir or none, with
\* keep_clones on and off.
WorkspaceOptions ==
    {[org |-> o, user |-> None, concurrency |-> c, tmp_dir |-> d,
      keep_clones |-> k] :
        o \in {None, Some(<<"o">>)}, c \in 1..MaxConcurrency,
        d \in {None, Some(<<"w">>)}, k \in BOOLEAN}

\* The disk before the call: no workspace, no clones, no TemporaryDirectory.
NoWorkspace == [workspace |-> FALSE, clones |-> {}, temp_ctx |-> "none"]

\* opts.tmp_dir is created if missing; otherwise a TemporaryDirectory is
\* allocated and held by the local temp_ctx. clones_root is made under it.
ChooseWorkspace(opts) ==
    [workspace |-> TRUE, clones |-> {},
     temp_ctx |-> IF opts.tmp_dir # None THEN "none" ELSE "live"]

\* What _scan_one_repo's run_scan returns for a clone of the repository: no
\* files, a file with findings, a file that cannot be scanned.
RepoStreams(name) ==
    {<<>>,
     <<FileCandidate(<<"a">>, MaxFileBytes, FALSE, EvalReturns(FindingsA(name, <<"a">>)))>>,
     <<FileCandidate(<<"a">>, MaxFileBytes, FALSE, EvalRaises)>>}

RepoConfig == [max_file_bytes |-> MaxFileBytes, deterministic |-> TRUE]
NoBaseline == [kind |-> "none", detail |-> "", known |-> {}]

\* res = run_scan(target=..., baseline=None, dedupe=True)
RepoScanResults(name) ==
    {ScanResult(name, run_scan(name, stream, RepoConfig, NoBaseline, TRUE)) :
        stream \in RepoStreams(name)}

QueuedTask == [pc |-> "queued", result |-> None, error |-> ""]

GithubIdle ==
    /\ gh_listing = <<>> /\ gh_filter = DefaultFilter
    /\ gh_opts = [org |-> None, user |-> None, concurrency |-> 1, tmp_dir |-> None,
                  keep_clones |-> FALSE]
    /\ gh_on_event = FALSE
    /\ gh_pc = "idle" /\ gh_repos = <<>> /\ gh_task = <<>> /\ gh_events = <<>>
    /\ gh_results = <<>> /\ gh_fs = NoWorkspace

GithubInputs ==
    /\ gh_listing \in GithubListings
    /\ gh_filter \in GithubFilters
    /\ gh_opts \in GithubOptions
    /\ gh_on_event \in BOOLEAN
    /\ gh_pc = "start" /\ gh_repos = <<>> /\ gh_task = <<>> /\ gh_events = <<>>
    /\ gh_results = <<>> /\ gh_fs = NoWorkspace

\* scan_github called with each choice of workspace
WorkspaceInputs ==
    /\ gh_listing \in GithubListings
    /\ gh_filter \in GithubFilters
    /\ gh_opts \in WorkspaceOptions
    /\ gh_on_event = FALSE
    /\ gh_pc = "start" /\ gh_repos = <<>> /\ gh_task = <<>> /\ gh_events = <<>>
    /\ gh_results = <<>> /\ gh_fs = NoWorkspace

ghInputs == <<gh_listing, gh_filter, gh_opts, gh_on_event>>

\* raise ValueError("Either org or user must be provided.")
ScanGithubRejects ==
    /\ gh_pc = "start"
    /\ gh_opts.org = None /\ gh_opts.user = None
    /\ gh_pc' = "raised"
    /\ UNCHANGED <<ghInputs, gh_repos, gh_task, gh_events, gh_results, gh_fs,
                   redVars, polVars, ddVars, engVars, cloneVars, rsVars, ldVars,
                   rfVars, rqVars, cmdVars, gsVars>>

\* The listing, repo_filter.apply, the workspace, and the submit loop: one
\* task per repo.
ListAndSubmit ==
    /\ gh_pc = "start"
    /\ ~(gh_opts.org = None /\ gh_opts.user = None)
    /\ gh_repos' = RepoFilterApply(gh_filter, gh_listing)
    /\ gh_task' = [i \in DOMAIN gh_repos' |-> QueuedTask]
    /\ gh_events' = [i \in DOMAIN gh_repos' |-> <<>>]
    /\ gh_fs' = ChooseWorkspace(gh_opts)
    /\ gh_pc' = "collecting"
    /\ UNCHANGED <<ghInputs, gh_results, redVars, polVars, ddVars, engVars, cloneVars, rsVars,
                   ldVars, rfVars, rqVars, cmdVars, gsVars>>

\* concurrency = max(1, int(opts.concurrency)) worker threads
Workers == Max(1, gh_opts.concurrency)
Running == {i \in DOMAIN gh_task : gh_task[i].pc \in {"cloning", "cloned", "scanning"}}

\* A step of the worker thread that runs _clone_and_scan for gh_repos[i].
WorkerStep(i, pc, event) ==
    /\ gh_task' = [gh_task EXCEPT ![i].pc = pc]
    /\ gh_events' = [gh_events EXCEPT ![i] = Emit(@, gh_on_event, event)]
    /\ gh_fs' = IF pc = "cloned" THEN [gh_fs EXCEPT !.clones = @ \cup {i}] ELSE gh_fs
    /\ UNCHANGED <<ghInputs, gh_pc, gh_repos, gh_results, redVars, polVars, ddVars,
                   engVars, cloneVars, rsVars, ldVars, rfVars, rqVars, cmdVars, gsVars>>

WorkerRaises(i, detail) ==
    /\ gh_task' = [gh_task EXCEPT ![i].pc = "failed", ![i].error = detail]
    /\ UNCHANGED <<ghInputs, gh_pc, gh_repos, gh_events, gh_results, gh_fs, redVars,
                   polVars, ddVars, engVars, cloneVars, rsVars, ldVars, rfVars, rqVars,
                   cmdVars, gsVars>>

\* A free worker takes the oldest queued task, which emits clone_start.
CloneStart(i) ==
    /\ gh_pc = "collecting"
    /\ gh_task[i].pc = "queued"
    /\ \A j \in 1..(i - 1) : gh_task[j].pc # "queued"
    /\ Cardinality(Running) < Workers
    /\ WorkerStep(i, "cloning", "clone_start")

CloneDone(i) ==
    /\ gh_task[i].pc = "cloning"
    /\ WorkerStep(i, "cloned", "clone_done")

CloneRaises(i) ==
    /\ gh_task[i].pc = "cloning"
    /\ WorkerRaises(i, "clone failed")

ScanStart(i) ==
    /\ gh_task[i].pc = "cloned"
    /\ WorkerStep(i, "scanning", "scan_start")

\* _scan_one_repo returns res after emitting scan_done.
ScanDone(i) ==
    /\ gh_task[i].pc = "scanning"
    /\ \E res \in RepoScanResults(gh_repos[i].full_name) :
          gh_task' = [gh_task EXCEPT ![i].pc = "done", ![i].result = Some(res)]
    /\ gh_events' = [gh_events EXCEPT ![i] = Emit(@, gh_on_event, "scan_done")]
    /\ UNCHANGED <<ghInputs, gh_pc, gh_repos, gh_results, gh_fs, redVars, polVars,
                   ddVars, engVars, cloneVars, rsVars, ldVars, rfVars, rqVars, cmdVars,
                   gsVars>>

\* Loading the config or the rules, listing the files, or run_scan raises.
ScanRaises(i) ==
    /\ gh_task[i].pc = "scanning"
    /\ WorkerRaises(i, "scan failed")

\* as_completed yields a future whose task returned: results.append(res)
CollectResult(i) ==
    /\ gh_pc = "collecting"
    /\ gh_task[i].pc = "done"
    /\ gh_results' = Append(gh_results, gh_task[i].result[1])
    /\ gh_task' = [gh_task EXCEPT ![i].pc = "collected"]
    /\ UNCHANGED <<ghInputs, gh_pc, gh_repos, gh_events, gh_fs, redVars, polVars,
                   ddVars, engVars, cloneVars, rsVars, ldVars, rfVars, rqVars, cmdVars,
                   gsVars>>

\* as_completed yields a future whose task raised: repo_error, then the
\* ScanResult that carries the error
CollectError(i) ==
    /\ gh_pc = "collecting"
    /\ gh_task[i].pc = "failed"
    /\ gh_events' = [gh_events EXCEPT ![i] = Emit(@, gh_on_event, "repo_error")]
    /\ gh_results' = Append(gh_results,
                            FailedRepoResult(gh_repos[i].full_name, gh_task[i].error))
    /\ gh_task' = [gh_task EXCEPT ![i].pc = "collected"]
    /\ UNCHANGED <<ghInputs, gh_pc, gh_repos, gh_fs, redVars, polVars, ddVars,
                   engVars, cloneVars, rsVars, ldVars, rfVars, rqVars, cmdVars, gsVars>>

\* return results, workspace: the local temp_ctx, the only reference to the
\* TemporaryDirectory, goes out of scope (keep_clones changes nothing).
ScanGithubReturns ==
    /\ gh_pc = "collecting"
    /\ \A i \in DOMAIN gh_task : gh_task[i].pc = "collected"
    /\ gh_pc' = "returned"
    /\ gh_fs' = [gh_fs EXCEPT !.temp_ctx = IF @ = "live" THEN "unreferenced" ELSE @]
    /\ UNCHANGED <<ghInputs, gh_repos, gh_task, gh_events, gh_results,
                   redVars, polVars, ddVars, engVars, cloneVars, rsVars, ldVars,
                   rfVars, rqVars, cmdVars, gsVars>>

\* The unreferenced TemporaryDirectory is collected and its finalizer removes
\* the directory tree: at once under reference counting, at some later
\* collection or at interpreter exit otherwise.
TemporaryDirectoryCleanup ==
    /\ gh_pc = "returned"
    /\ gh_fs.temp_ctx = "unreferenced"
    /\ gh_fs' = [workspace |-> FALSE, clones |-> {}, temp_ctx |-> "cleaned"]
    /\ UNCHANGED <<ghInputs, gh_pc, gh_repos, gh_task, gh_events, gh_results,
                   redVars, polVars, ddVars, engVars, cloneVars, rsVars, ldVars,
                   rfVars, rqVars, cmdVars, gsVars>>

(***************************************************************************)
(* clone_repo: the destination directory and the git command line         *)
(***************************************************************************)
\* s.replace("/", "__")
RECURSIVE ReplaceSlash(_)
ReplaceSlash(s) ==
    IF s = <<>> THEN <<>>
    ELSE (IF Head(s) = "/" THEN <<"_", "_">> ELSE <<Head(s)>>) \o ReplaceSlash(Tail(s))

\* Mutant of SafeDir: the directory is named after the owner alone.
SafeDirOwnerOnly(repo) == ReplaceSlash(repo.owner_login)

\* safe_dir = f"{repo.owner_login}__{repo.name}".replace("/", "__"); dest is
\* this name under dest_root, which is the same clones_root for every task.
SafeDir(repo) == ReplaceSlash(repo.owner_login \o <<"_", "_">> \o repo.name)

\* TRUE when sub occurs in s (Python's "sub in s")
Contains(s, sub) ==
    \E i \in 0..(Len(s) - Len(sub)) : SubSeq(s, i + 1, i + Len(sub)) = sub

S_clone == <<"c", "l", "o", "n", "e">>
S_depth == <<"-", "-", "d", "e", "p", "t", "h">>
S_blobless == <<"-", "-", "f", "i", "l", "t", "e", "r", "=", "b", "l", "o", "b", ":",
                "n", "o", "n", "e">>
S_c == <<"-", "c">>
S_extraheader == <<"h", "t", "t", "p", ".", "e", "x", "t", "r", "a", "h", "e", "a", "d",
                   "e", "r", "=">>
S_bearer == <<"A", "U", "T", "H", "O", "R", "I", "Z", "A", "T", "I", "O", "N", ":", " ",
              "b", "e", "a", "r", "e", "r", " ">>
GIT_TERMINAL_PROMPT == "GIT_TERMINAL_PROMPT"

\* dest = (dest_root / safe_dir).resolve(), as str(dest)
CloneDest(repo, dest_root) == dest_root \o <<"/">> \o SafeDir(repo)

\* The arguments before the token is looked at: clone [--depth n]
\* [--filter=blob:none] <clone_url> <dest>
CloneArgs(repo, dest_root, opts) ==
    <<S_clone>>
    \o (IF opts.shallow THEN <<S_depth, IntToStr(Max(1, opts.depth))>> ELSE <<>>)
    \o (IF opts.blobless THEN <<S_blobless>> ELSE <<>>)
    \o <<repo.clone_url, CloneDest(repo, dest_root)>>

\* Mutant of WithAuth: the token is put into the URL argument as well.
WithAuthInUrl(args, token) ==
    IF token # None /\ token[1] # <<>>
    THEN [<<S_c, S_extraheader \o S_bearer \o token[1]>> \o args
             EXCEPT ![Len(args) + 1] = token[1] \o <<"@">> \o @]
    ELSE args

\* if token: args = ["-c", f"http.extraheader=AUTHORIZATION: bearer {token}", *args]
WithAuth(args, token) ==
    IF token # None /\ token[1] # <<>>
    THEN <<S_c, S_extraheader \o S_bearer \o token[1]>> \o args
    ELSE args

\* env = os.environ.copy(); env["GIT_TERMINAL_PROMPT"] = "0"
CloneEnv(environ) ==
    {p \in environ : p[1] # GIT_TERMINAL_PROMPT} \cup {<<GIT_TERMINAL_PROMPT, "0">>}

\* RuntimeError(f"git {' '.join(args)} failed: {err}")
GitFailed(args, err) ==
    <<"g", "i", "t", " ">> \o Join(args, <<" ">>)
    \o <<" ", "f", "a", "i", "l", "e", "d", ":", " ">> \o err

CloneRoot == <<"w">>
CloneRepos ==
    {[owner_login |-> <<"o">>, name |-> <<"a">>, clone_url |-> <<"h", "/", "o", "/", "a">>],
     [owner_login |-> <<"o">>, name |-> <<"b">>, clone_url |-> <<"h", "/", "o", "/", "b">>]}
CloneTokens == {None, Some(<<>>), Some(<<"t", "k">>)}
CloneDepths == {0, 1, 2}
CloneOptions ==
    {[shallow |-> s, depth |-> d, blobless |-> b] :
        s \in BOOLEAN, d \in CloneDepths, b \in BOOLEAN}
CloneEnvirons == {{}, {<<GIT_TERMINAL_PROMPT, "1">>}, {<<"HOME", "/h">>}}
GitErrors == {<<>>, <<"e">>}

CloneIdle ==
    /\ cl_repo = [owner_login |-> <<>>, name |-> <<>>, clone_url |-> <<>>]
    /\ cl_token = None
    /\ cl_opts = [shallow |-> TRUE, depth |-> 1, blobless |-> TRUE]
    /\ cl_environ = {}
    /\ cl_pc = "idle" /\ cl_args = <<>> /\ cl_env = {} /\ cl_error = None

CloneInputs ==
    /\ cl_repo \in CloneRepos
    /\ cl_token \in CloneTokens
    /\ cl_opts \in CloneOptions
    /\ cl_environ \in CloneEnvirons
    /\ cl_pc = "start" /\ cl_args = <<>> /\ cl_env = {} /\ cl_error = None

clInputs == <<cl_repo, cl_token, cl_opts, cl_environ>>

\* clone_repo up to subprocess.run(["git", *args], env=env)
CloneRepoRunsGit ==
    /\ cl_pc = "start"
    /\ cl_args' = WithAuth(CloneArgs(cl_repo, CloneRoot, cl_opts), cl_token)
    /\ cl_env' = CloneEnv(cl_environ)
    /\ cl_pc' = "git"
    /\ UNCHANGED <<clInputs, cl_error, redVars, polVars, ddVars, engVars, ghVars, rsVars,
                   ldVars, rfVars, rqVars, cmdVars, gsVars>>

\* git exits with 0: return dest
CloneRepoReturns ==
    /\ cl_pc = "git"
    /\ cl_pc' = "returned"
    /\ UNCHANGED <<clInputs, cl_args, cl_env, cl_error, redVars, polVars, ddVars,
                   engVars, ghVars, rsVars, ldVars, rfVars, rqVars, cmdVars, gsVars>>

\* git exits with another code: _run_git raises RuntimeError
CloneRepoRaises ==
    /\ cl_pc = "git"
    /\ \E err \in GitErrors : cl_error' = Some(GitFailed(cl_args, err))
    /\ cl_pc' = "raised"
    /\ UNCHANGED <<clInputs, cl_args, cl_env, redVars, polVars, ddVars, engVars, ghVars,
                   rsVars, ldVars, rfVars, rqVars, cmdVars, gsVars>>

(***************************************************************************)
(* rules/validators.py                                                     *)
(***************************************************************************)
Reversed(s) == [i \in DOMAIN s |-> s[Len(s) + 1 - i]]
RuleIds(rules) == [i \in DOMAIN rules |-> rules[i].id]

\* _ensure_unique_ids: the ids that occur again after their first occurrence
DuplicateIds(rules) ==
    {rules[j].id : j \in {j \in DOMAIN rules : \E i \in 1..(j - 1) : rules[i].id = rules[j].id}}

\* Mutant of _norm_keys: the keys are never upper-cased.
_norm_keys_as_given(keys, case_insensitive) == keys

_norm_keys(keys, case_insensitive) ==
    IF ~case_insensitive THEN keys ELSE [i \in DOMAIN keys |-> Upper(keys[i])]

RuleError(kind, id) == Some([kind |-> kind, rule |-> id])

\* The body of validate_rules' loop for one rule: None, or the error raised.
ValidateRule(r) ==
    IF ~r.enabled THEN None
    ELSE IF \E i \in DOMAIN r.allow_regexes : ~RegexCompiles(r.allow_regexes[i])
    THEN RuleError("Invalid regex", r.id)
    ELSE IF r.type = "filename"
    THEN IF r.pattern_type = "regex" /\ ~RegexCompiles(r.pattern)
         THEN RuleError("Invalid regex", r.id) ELSE None
    ELSE IF r.type = "regex"
    THEN IF ~RegexCompiles(r.regex) THEN RuleError("Invalid regex", r.id) ELSE None
    ELSE IF r.type = "structured"
    THEN LET fk == Range(_norm_keys(r.forbidden_keys, r.case_insensitive_keys))
             ak == Range(_norm_keys(r.allowed_keys, r.case_insensitive_keys))
         IN IF fk \cap ak # {}
            THEN RuleError("keys present in both forbidden_keys and allowed_keys", r.id)
            ELSE None
    ELSE RuleError("Unknown rule type", r.id)

RECURSIVE ValidateLoop(_)
ValidateLoop(rules) ==
    IF rules = <<>> THEN None
    ELSE IF ValidateRule(Head(rules)) # None THEN ValidateRule(Head(rules))
    ELSE ValidateLoop(Tail(rules))

\* validate_rules(rules): None when it returns, the RuleValidationError otherwise
validate_rules(rules) ==
    IF DuplicateIds(rules) # {} THEN RuleError("Duplicate rule IDs", <<>>)
    ELSE ValidateLoop(rules)

\* The value of a Severity member: the lower-case name of the level.
SeverityValue(severity) ==
    CASE severity = "critical" -> <<"c", "r", "i", "t", "i", "c", "a", "l">>
      [] severity = "high" -> <<"h", "i", "g", "h">>
      [] severity = "medium" -> <<"m", "e", "d", "i", "u", "m">>
      [] severity = "low" -> <<"l", "o", "w">>

\* enabled_rules.sort(key=lambda r: r.severity, reverse=True): the list is
\* reversed, sorted stably in ascending key order, and reversed again.
SortBySeverityReverse(rules) ==
    LET rev == Reversed(rules)
    IN Reversed(StableSort([i \in DOMAIN rev |->
                               [key |-> <<Ords(SeverityValue(rev[i].severity))>>,
                                val |-> rev[i]]]))

\* deduplicate by id (keep first occurrence after sort)
RECURSIVE DedupeById(_, _)
DedupeById(rules, deduped) ==
    IF rules = <<>> THEN deduped
    ELSE DedupeById(Tail(rules),
                    IF \E i \in DOMAIN deduped : deduped[i].id = Head(rules).id
                    THEN deduped ELSE Append(deduped, Head(rules)))

\* build_ruleset(rules): the RuleSet's rules, or the error validate_rules raised
build_ruleset(rules) ==
    IF validate_rules(rules) # None
    THEN [raised |-> TRUE, error |-> validate_rules(rules), rules |-> <<>>]
    ELSE [raised |-> FALSE, error |-> None,
          rules |-> DedupeById(SortBySeverityReverse(Enabled(rules)), <<>>)]

(***************************************************************************)
(* build_ruleset: inputs and the call                                      *)
(***************************************************************************)
MaxRules == 3

SeverityRule(id, severity) ==
    [BaseRule(id, "filename") EXCEPT !.severity = severity, !.pattern = <<"*">>]
KeysRule(id, forbidden, allowed, ci) ==
    [BaseRule(id, "structured") EXCEPT !.forbidden_keys = forbidden, !.allowed_keys = allowed,
                                       !.case_insensitive_keys = ci]

\* One rule per severity, a second low one, a disabled one, a rule whose regex
\* does not compile, and structured rules whose key lists share k up to case.
RulesetRules ==
    {SeverityRule(<<"c">>, "critical"), SeverityRule(<<"h">>, "high"),
     SeverityRule(<<"m">>, "medium"), SeverityRule(<<"l">>, "low"),
     SeverityRule(<<"k">>, "low"),
     [SeverityRule(<<"o">>, "critical") EXCEPT !.enabled = FALSE],
     [BaseRule(<<"x">>, "regex") EXCEPT !.regex = A_bad],
     KeysRule(<<"s">>, <<<<"k">>>>, <<<<"K">>>>, TRUE),
     KeysRule(<<"s">>, <<<<"k">>>>, <<<<"K">>>>, FALSE),
     [KeysRule(<<"t">>, <<<<"k">>>>, <<<<"k">>>>, FALSE) EXCEPT !.enabled = FALSE]}

RulesetIdle == br_rules = <<>> /\ br_pc = "idle" /\ br_result = build_ruleset(<<>>)

RulesetInputs ==
    /\ br_rules \in SeqsUpTo(RulesetRules, MaxRules)
    /\ br_pc = "start" /\ br_result = build_ruleset(<<>>)

BuildRulesetStep(raised) ==
    /\ br_pc = "start"
    /\ build_ruleset(br_rules).raised = raised
    /\ br_result' = build_ruleset(br_rules)
    /\ br_pc' = IF raised THEN "raised" ELSE "returned"
    /\ UNCHANGED <<br_rules, redVars, polVars, ddVars, engVars, ghVars, cloneVars, ldVars,
                   rfVars, rqVars, cmdVars, gsVars>>

\* return RuleSet(rules=deduped)
BuildRulesetReturns == BuildRulesetStep(FALSE)
\* validate_rules raises RuleValidationError
BuildRulesetRaises == BuildRulesetStep(TRUE)

(***************************************************************************)
(* rules/loader.py                                                         *)
(***************************************************************************)
\* out[rid] of _merge_rules_by_id: the value stored last under the id, where
\* entries lists the stores in the order they were made
RECURSIVE DictGet(_, _)
DictGet(entries, id) ==
    IF entries[Len(entries)].id = id THEN entries[Len(entries)]
    ELSE DictGet(SubSeq(entries, 1, Len(entries) - 1), id)

\* The ids in the order of their first occurrence (the keys of a dict, and
\* the order list of _merge_rules_by_id)
RECURSIVE FirstIds(_, _)
FirstIds(rules, order) ==
    IF rules = <<>> THEN order
    ELSE FirstIds(Tail(rules),
                  IF \E i \in DOMAIN order : order[i] = Head(rules).id
                  THEN order ELSE Append(order, Head(rules).id))

\* Mutant of _merge_rules_by_id: the base rule wins over the overriding one.
_merge_rules_base_wins(base, overrides) ==
    LET order == RuleIds(base) \o FirstIds(SelectSeq(overrides,
                     LAMBDA r : \A i \in DOMAIN base : base[i].id # r.id), <<>>)
    IN [i \in DOMAIN order |-> DictGet(Reversed(base \o overrides), order[i])]

\* out = {r.id: r for r in base}; order = [r.id for r in base]; each override
\* is stored under its id, and its id appended to order when it is new.
_merge_rules_by_id(base, overrides) ==
    LET order == RuleIds(base) \o FirstIds(SelectSeq(overrides,
                     LAMBDA r : \A i \in DOMAIN base : base[i].id # r.id), <<>>)
    IN [i \in DOMAIN order |-> DictGet(base \o overrides, order[i])]

(***************************************************************************)
(* load_ruleset: inputs and steps                                          *)
(***************************************************************************)
MaxExtraFiles == 1

Rule_A_high == SeverityRule(<<"A">>, "high")
Rule_A_off == [SeverityRule(<<"A">>, "critical") EXCEPT !.enabled = FALSE]
Rule_A_low == SeverityRule(<<"A">>, "low")
Rule_B == SeverityRule(<<"B">>, "medium")
Rule_B_off == [SeverityRule(<<"B">>, "medium") EXCEPT !.enabled = FALSE]
Rule_C == SeverityRule(<<"C">>, "critical")

BuiltinPack == <<Rule_A_high, Rule_B_off>>
\* The rule files found: empty, overriding, introducing new ids, and one that
\* validate_rule_pack rejects (an id twice).
LoaderPacks ==
    {<<>>, <<Rule_A_off>>, <<Rule_C, Rule_A_low>>, <<Rule_B, Rule_C>>, <<Rule_C, Rule_B>>,
     <<Rule_A_low, Rule_A_off>>}

LoaderIdle ==
    /\ ld_found = <<>> /\ ld_pc = "idle" /\ ld_i = 1 /\ ld_packs = <<>>
    /\ ld_merged = <<>> /\ ld_result = build_ruleset(<<>>)

\* The packs in the order load_ruleset reads them: builtin, the global file if
\* one is found, the repository file if one is found, the extra files.
LoaderInputs ==
    /\ \E g, r \in {None} \cup {Some(p) : p \in LoaderPacks} :
       \E extra \in SeqsUpTo(LoaderPacks, MaxExtraFiles) :
          ld_found = <<BuiltinPack>> \o g \o r \o extra
    /\ ld_pc = "load" /\ ld_i = 1 /\ ld_packs = <<>>
    /\ ld_merged = <<>> /\ ld_result = build_ruleset(<<>>)

\* load_builtin_rule_pack / load_rule_pack_from_path: validate_rule_pack passes
LoadPackReturns ==
    /\ ld_pc = "load" /\ ld_i <= Len(ld_found)
    /\ validate_rules(ld_found[ld_i]) = None
    /\ ld_packs' = Append(ld_packs, ld_found[ld_i])
    /\ ld_i' = ld_i + 1
    /\ UNCHANGED <<ld_found, ld_pc, ld_merged, ld_result, redVars, polVars, ddVars,
                   engVars, ghVars, cloneVars, rsVars, rfVars, rqVars, cmdVars, gsVars>>

\* validate_rule_pack raises: typer.BadParameter
LoadPackRaises ==
    /\ ld_pc = "load" /\ ld_i <= Len(ld_found)
    /\ validate_rules(ld_found[ld_i]) # None
    /\ ld_pc' = "raised"
    /\ ld_result' = [raised |-> TRUE, error |-> validate_rules(ld_found[ld_i]),
                     rules |-> <<>>]
    /\ UNCHANGED <<ld_found, ld_i, ld_packs, ld_merged, redVars, polVars, ddVars,
                   engVars, ghVars, cloneVars, rsVars, rfVars, rqVars, cmdVars, gsVars>>

\* merged = []; then the loop over packs starts
MergeStarts ==
    /\ ld_pc = "load" /\ ld_i > Len(ld_found)
    /\ ld_pc' = "merge" /\ ld_i' = 1 /\ ld_merged' = <<>>
    /\ UNCHANGED <<ld_found, ld_packs, ld_result, redVars, polVars, ddVars, engVars,
                   ghVars, cloneVars, rsVars, rfVars, rqVars, cmdVars, gsVars>>

\* merged = _merge_rules_by_id(merged, pack.rules)
MergePack ==
    /\ ld_pc = "merge" /\ ld_i <= Len(ld_packs)
    /\ ld_merged' = _merge_rules_by_id(ld_merged, ld_packs[ld_i])
    /\ ld_i' = ld_i + 1
    /\ UNCHANGED <<ld_found, ld_pc, ld_packs, ld_result, redVars, polVars, ddVars,
                   engVars, ghVars, cloneVars, rsVars, rfVars, rqVars, cmdVars, gsVars>>

\* ruleset = build_ruleset(merged); return LoadedRules(ruleset, sources), or
\* typer.BadParameter when build_ruleset raises
BuildMerged ==
    /\ ld_pc = "merge" /\ ld_i > Len(ld_packs)
    /\ ld_result' = build_ruleset(ld_merged)
    /\ ld_pc' = IF build_ruleset(ld_merged).raised THEN "raised" ELSE "returned"
    /\ UNCHANGED <<ld_found, ld_i, ld_packs, ld_merged, redVars, polVars, ddVars,
                   engVars, ghVars, cloneVars, rsVars, rfVars, rqVars, cmdVars, gsVars>>

(***************************************************************************)
(* RepoFilter.apply: inputs and the call                                   *)
(***************************************************************************)
\* The repositories of a listing: plain, archived, a fork, disabled, and one
\* of another owner whose name sorts first.
FilterRepos ==
    {RepoInfo(5, <<"o">>, <<"a">>, FALSE),
     RepoInfo(4, <<"o">>, <<"b">>, TRUE),
     [RepoInfo(3, <<"o">>, <<"c">>, FALSE) EXCEPT !.fork = TRUE],
     [RepoInfo(2, <<"o">>, <<"d">>, FALSE) EXCEPT !.disabled = TRUE],
     RepoInfo(1, <<"O">>, <<"e">>, FALSE)}

FilterListings ==
    {l \in SeqsUpTo(FilterRepos, MaxRepos) : \A i, j \in DOMAIN l : l[i] = l[j] => i = j}

\* max_repos is an Optional[int] that nothing validates.
FilterMaxRepos == {None} \cup {Some(n) : n \in -1..MaxRepos}

RepoFilters ==
    {[include |-> inc, exclude |-> exc, repos |-> allow, include_archived |-> ia,
      include_forks |-> if, include_disabled |-> id, max_repos |-> mr] :
        inc \in {<<>>, <<<<"o", "/", "*">>>>},
        exc \in {<<>>, <<<<"*", "/", "a">>>>},
        allow \in {<<>>, <<<<"O", "/", "A">>, <<"o", "/", "b">>>>},
        ia \in BOOLEAN, if \in BOOLEAN, id \in BOOLEAN, mr \in FilterMaxRepos}

FilterIdle == rf_filter = DefaultFilter /\ rf_repos = <<>> /\ rf_out = None

FilterInputs ==
    /\ rf_filter \in RepoFilters
    /\ rf_repos \in FilterListings
    /\ rf_out = None

\* out = repo_filter.apply(repos)
RepoFilterApplyCall ==
    /\ rf_out = None
    /\ rf_out' = Some(RepoFilterApply(rf_filter, rf_repos))
    /\ UNCHANGED <<rf_filter, rf_repos, redVars, polVars, ddVars, engVars, ghVars,
                   cloneVars, rsVars, ldVars, rqVars, cmdVars, gsVars>>

(***************************************************************************)
(* scanners/github/api.py: GitHubClient._request_json                      *)
(***************************************************************************)
\* retry: int = 3
DefaultRetry == 3

\* Mutant of RetryableStatus: a 403 is retried as well.
RetryableOrForbidden(status) == status \in {403, 429, 500, 502, 503, 504}

\* status in (429, 500, 502, 503, 504)
RetryableStatus(status) == status \in {429, 500, 502, 503, 504}

\* time.sleep(0.5 * (attempt + 1)) and time.sleep(0.25 * (attempt + 1)), in
\* quarters of a second
HttpErrorPause(attempt) == 2 * (attempt + 1)
OtherErrorPause(attempt) == attempt + 1

GitHubAPIError(message, status, detail) ==
    [message |-> message, status |-> status, detail |-> detail]

\* What one urlopen can give: a response that is returned, an HTTPError with
\* a status and a body, another exception (no connection, a body that is not
\* JSON), written as status 0.
HttpErrorStatuses == {400, 403, 404, 429, 500, 501, 502, 503, 504}
HttpBodies == {<<>>, <<"b">>}
HttpOutcomes ==
    {[status |-> 200, body |-> <<>>], [status |-> 0, body |-> <<>>]}
    \cup {[status |-> s, body |-> b] : s \in HttpErrorStatuses, b \in HttpBodies}

RequestIdle ==
    /\ rq_pc = "idle" /\ rq_attempt = 0 /\ rq_log = <<>> /\ rq_sleeps = <<>>
    /\ rq_result = None

RequestInputs ==
    /\ rq_pc = "loop" /\ rq_attempt = 0 /\ rq_log = <<>> /\ rq_sleeps = <<>>
    /\ rq_result = None

\* One pass of "for attempt in range(retry)" whose urlopen gives the outcome.
Attempt(outcome) ==
    /\ rq_pc = "loop" /\ rq_attempt < DefaultRetry
    /\ rq_log' = Append(rq_log, outcome)

\* return data, headers, status
RequestReturns ==
    /\ \E o \in HttpOutcomes : o.status = 200 /\ Attempt(o)
    /\ rq_pc' = "returned"
    /\ UNCHANGED <<rq_attempt, rq_sleeps, rq_result, redVars, polVars, ddVars, engVars,
                   ghVars, cloneVars, rsVars, ldVars, rfVars, cmdVars, gsVars>>

\* HTTPError with a transient status: sleep, continue
RequestRetriesHttpError ==
    /\ \E o \in HttpOutcomes :
          /\ o.status \notin {0, 200} /\ RetryableStatus(o.status)
          /\ Attempt(o)
    /\ rq_sleeps' = Append(rq_sleeps, HttpErrorPause(rq_attempt))
    /\ rq_attempt' = rq_attempt + 1
    /\ UNCHANGED <<rq_pc, rq_result, redVars, polVars, ddVars, engVars,
                   ghVars, cloneVars, rsVars, ldVars, rfVars, cmdVars, gsVars>>

\* HTTPError 403: raise GitHubAPIError("GitHub API forbidden ...")
RequestForbidden ==
    /\ \E o \in HttpOutcomes :
          /\ o.status = 403 /\ ~RetryableStatus(o.status)
          /\ Attempt(o)
          /\ rq_result' = Some(GitHubAPIError("GitHub API forbidden", Some(403), o.body))
    /\ rq_pc' = "raised"
    /\ UNCHANGED <<rq_attempt, rq_sleeps, redVars, polVars, ddVars, engVars,
                   ghVars, cloneVars, rsVars, ldVars, rfVars, cmdVars, gsVars>>

\* HTTPError with any other status: raise GitHubAPIError("GitHub API request failed.")
RequestFails ==
    /\ \E o \in HttpOutcomes :
          /\ o.status \notin {0, 200, 403} /\ ~RetryableStatus(o.status)
          /\ Attempt(o)
          /\ rq_result' = Some(GitHubAPIError("GitHub API request failed.",
                                              Some(o.status), o.body))
    /\ rq_pc' = "raised"
    /\ UNCHANGED <<rq_attempt, rq_sleeps, redVars, polVars, ddVars, engVars,
                   ghVars, cloneVars, rsVars, ldVars, rfVars, cmdVars, gsVars>>

\* any other exception: sleep, continue
RequestRetriesOtherError ==
    /\ \E o \in HttpOutcomes : o.status = 0 /\ Attempt(o)
    /\ rq_sleeps' = Append(rq_sleeps, OtherErrorPause(rq_attempt))
    /\ rq_attempt' = rq_attempt + 1
    /\ UNCHANGED <<rq_pc, rq_result, redVars, polVars, ddVars, engVars,
                   ghVars, cloneVars, rsVars, ldVars, rfVars, cmdVars, gsVars>>

\* the loop is over: raise GitHubAPIError("GitHub API request failed after retries.")
RequestGivesUp ==
    /\ rq_pc = "loop" /\ rq_attempt >= DefaultRetry
    /\ rq_pc' = "raised"
    /\ rq_result' = Some(GitHubAPIError("GitHub API request failed after retries.",
                                        None, <<>>))
    /\ UNCHANGED <<rq_attempt, rq_log, rq_sleeps, redVars, polVars, ddVars, engVars,
                   ghVars, cloneVars, rsVars, ldVars, rfVars, cmdVars, gsVars>>

(***************************************************************************)
(* cli/commands/scan_path.py: the exit code of scan_cmd                    *)
(***************************************************************************)
\* core/errors.py: class ExitCode(IntEnum)
ExitCode_OK == 0
ExitCode_FINDINGS == 1
ExitCode_ERROR == 2

\* Mutant of ExitsWithError: errors never decide the exit code.
ExitsWithErrorNever(result, ignore_errors) == FALSE

\* if result.errors and not ignore_errors
ExitsWithError(result, ignore_errors) == result.errors # <<>> /\ ~ignore_errors

\* if result.findings and fail
ExitsWithFindings(result, fail) == result.findings # <<>> /\ fail

\* result = run_scan(..., baseline=None, dedupe=True) for the candidates of
\* the scanned path
ScanCmdResults ==
    {run_scan(TargetName, s, RepoConfig, NoBaseline, TRUE) : s \in EngineStreams}

ScanCmdIdle ==
    /\ cmd_fail = TRUE /\ cmd_ignore_errors = FALSE /\ cmd_result = NewScan
    /\ cmd_exit = None

ScanCmdInputs ==
    /\ cmd_fail \in BOOLEAN /\ cmd_ignore_errors \in BOOLEAN
    /\ cmd_result \in ScanCmdResults
    /\ cmd_exit = None

ScanCmdExits(code) ==
    /\ cmd_exit = None
    /\ cmd_exit' = Some(code)
    /\ UNCHANGED <<cmd_fail, cmd_ignore_errors, cmd_result, redVars, polVars, ddVars,
                   engVars, ghVars, cloneVars, rsVars, ldVars, rfVars, rqVars, gsVars>>

\* raise typer.Exit(code=int(ExitCode.ERROR))
ScanCmdExitsError ==
    /\ ExitsWithError(cmd_result, cmd_ignore_errors)
    /\ ScanCmdExits(ExitCode_ERROR)

\* raise typer.Exit(code=int(ExitCode.FINDINGS))
ScanCmdExitsFindings ==
    /\ ~ExitsWithError(cmd_result, cmd_ignore_errors)
    /\ ExitsWithFindings(cmd_result, cmd_fail)
    /\ ScanCmdExits(ExitCode_FINDINGS)

\* raise typer.Exit(code=int(ExitCode.OK))
ScanCmdExitsOk ==
    /\ ~ExitsWithError(cmd_result, cmd_ignore_errors)
    /\ ~ExitsWithFindings(cmd_result, cmd_fail)
    /\ ScanCmdExits(ExitCode_OK)

(***************************************************************************)
(* scanners/git_scanner.py and scanners/fs_scanner.py: the enumerators     *)
(***************************************************************************)
\* rel_path.split("/")
RECURSIVE SplitSlashFrom(_, _)
SplitSlashFrom(s, cur) ==
    IF s = <<>> THEN <<cur>>
    ELSE IF Head(s) = "/" THEN <<cur>> \o SplitSlashFrom(Tail(s), <<>>)
    ELSE SplitSlashFrom(Tail(s), Append(cur, Head(s)))

SplitSlash(s) == SplitSlashFrom(s, <<>>)

\* _path_has_skip_dir(rel_path, skip_dirs)
_path_has_skip_dir(rel_path, skip_dirs) ==
    \E i \in DOMAIN SplitSlash(rel_path) : SplitSlash(rel_path)[i] \in skip_dirs

\* _should_skip_dir(dirname, skip_dirs)
_should_skip_dir(dirname, skip_dirs) == dirname \in skip_dirs

\* A file of the working tree: its path below the root, how git knows it
\* (tracked, untracked, ignored), and what is at the path: a regular file, a
\* symbolic link to a file inside or outside the root, or nothing (a tracked
\* file deleted from the working tree).
TreeFile(path, status, kind) == [path |-> path, status |-> status, kind |-> kind]

\* git ls-files -z [--others [-i] --exclude-standard], split at NUL
GitLsFiles(tree, status) == {e.path : e \in {x \in tree : x.status = status}}

\* include_ignored = config.include_ignored if include_ignored is None else include_ignored
EffectiveIncludeIgnored(opts) ==
    IF opts.include_ignored = None THEN opts.config_include_ignored
    ELSE opts.include_ignored[1]

\* all_paths = tracked | others | ignored
GitAllPaths(tree, opts) ==
    GitLsFiles(tree, "tracked")
    \cup (IF opts.include_untracked THEN GitLsFiles(tree, "untracked") ELSE {})
    \cup (IF opts.include_untracked /\ EffectiveIncludeIgnored(opts)
          THEN GitLsFiles(tree, "ignored") ELSE {})

\* Path.is_file() and Path.is_symlink() of root / rel: is_file follows links
TreeAt(tree, rel) == {e \in tree : e.path = rel}
IsFile(tree, rel) == \E e \in TreeAt(tree, rel) : e.kind \in {"file", "link_inside", "link_outside"}
IsSymlink(tree, rel) == \E e \in TreeAt(tree, rel) : e.kind \in {"link_inside", "link_outside"}

\* FileCandidate(abs_path = root / rel, rel_path = rel, ...); kind is what
\* abs_path is on disk.
Candidate(tree, rel) ==
    [rel_path |-> rel, kind |-> (CHOOSE e \in TreeAt(tree, rel) : TRUE).kind]

\* os.walk(root): the names in directory dir (a list of path components) that
\* exist on disk, files and subdirectories.
InDir(tree, dir) ==
    {e \in tree : /\ e.kind # "missing"
                  /\ Len(SplitSlash(e.path)) > Len(dir)
                  /\ SubSeq(SplitSlash(e.path), 1, Len(dir)) = dir}
FileNames(tree, dir) ==
    {e.path : e \in {x \in InDir(tree, dir) : Len(SplitSlash(x.path)) = Len(dir) + 1}}
DirNames(tree, dir) ==
    {SplitSlash(e.path)[Len(dir) + 1] :
        e \in {x \in InDir(tree, dir) : Len(SplitSlash(x.path)) > Len(dir) + 1}}

\* The body of scan_path's loop for one directory, follow_symlinks = False:
\* the candidates of its files, then the walk of the directories left after
\* pruning.
RECURSIVE Walk(_, _, _)
Walk(tree, dir, opts) ==
    {Candidate(tree, rel) :
        rel \in {f \in FileNames(tree, dir) :
                    /\ ~IsSymlink(tree, f)
                    /\ IsFile(tree, f)
                    /\ ~(opts.ignore_globs # <<>>
                         /\ any_glob_match(normalize_rel_path(f), opts.ignore_globs))}}
    \cup UNION {Walk(tree, Append(dir, d), opts) :
                   d \in {n \in DirNames(tree, dir) : ~_should_skip_dir(n, opts.skip_dirs)}}

\* scan_path(root, config, ignore_globs=..., follow_symlinks=False)
scan_path(tree, opts) == Walk(tree, <<>>, opts)

(***************************************************************************)
MaxTreeFiles == 3

\* Files f, u (untracked), i (ignored), v/f, a file named v, d/f, a link l to
\* a file outside the root, a link k to f, and a tracked file m that was
\* deleted; skip_dirs is empty or holds v, ignore_globs is empty or holds d/*.
TreeFiles ==
    {TreeFile(<<"f">>, "tracked", "file"),
     TreeFile(<<"u">>, "untracked", "file"),
     TreeFile(<<"i">>, "ignored", "file"),
     TreeFile(<<"v", "/", "f">>, "tracked", "file"),
     TreeFile(<<"v">>, "tracked", "file"),
     TreeFile(<<"d", "/", "f">>, "tracked", "file"),
     TreeFile(<<"l">>, "tracked", "link_outside"),
     TreeFile(<<"k">>, "tracked", "link_inside"),
     TreeFile(<<"m">>, "tracked", "missing")}

\* Working trees: a path is a file or a directory, not both.
Trees ==
    {t \in SUBSET TreeFiles :
        /\ Cardinality(t) <= MaxTreeFiles
        /\ ~(TreeFile(<<"v">>, "tracked", "file") \in t
             /\ TreeFile(<<"v", "/", "f">>, "tracked", "file") \in t)}

ScannerOptions ==
    [include_untracked : BOOLEAN,
     include_ignored : {None, Some(TRUE), Some(FALSE)},
     config_include_ignored : BOOLEAN,
     skip_dirs : {{}, {<<"v">>}},
     ignore_globs : {<<>>, <<<<"d", "/", "*">>>>}]

ScannersIdle ==
    /\ gs_tree = {}
    /\ gs_opts = [include_untracked |-> TRUE, include_ignored |-> None,
                  config_include_ignored |-> FALSE, skip_dirs |-> {}, ignore_globs |-> <<>>]
    /\ gs_pc = "idle" /\ gs_all_paths = {} /\ gs_rest = {} /\ gs_yielded = {}
    /\ gs_walked = {}

ScannersInputs ==
    /\ gs_tree \in Trees
    /\ gs_opts \in ScannerOptions
    /\ gs_pc = "start" /\ gs_all_paths = {} /\ gs_rest = {} /\ gs_yielded = {}
    /\ gs_walked = {}

\* The filesystem enumerator is run on the tree first, for comparison.
ScanPathWalks ==
    /\ gs_pc = "start"
    /\ gs_walked' = scan_path(gs_tree, gs_opts)
    /\ gs_pc' = "walked"
    /\ UNCHANGED <<gs_tree, gs_opts, gs_all_paths, gs_rest, gs_yielded, redVars, polVars,
                   ddVars, engVars, ghVars, cloneVars, rsVars, ldVars, rfVars, rqVars,
                   cmdVars>>

\* scan_git_repo up to "return root, _iter()": the three listings
ScanGitRepoLists ==
    /\ gs_pc = "walked"
    /\ gs_all_paths' = GitAllPaths(gs_tree, gs_opts)
    /\ gs_rest' = gs_all_paths'
    /\ gs_pc' = "iter"
    /\ UNCHANGED <<gs_tree, gs_opts, gs_yielded, gs_walked, redVars, polVars, ddVars,
                   engVars, ghVars, cloneVars, rsVars, ldVars, rfVars, rqVars, cmdVars>>

\* One pass of _iter's loop, for the path rel.  The paths are taken in any
\* order (list(all_paths) of a set); sorted(all_paths) is one of the orders.
GitIterStep(rel, yields) ==
    /\ gs_pc = "iter"
    /\ rel \in gs_rest
    /\ gs_rest' = gs_rest \ {rel}
    /\ gs_yielded' = IF yields THEN gs_yielded \cup {Candidate(gs_tree, normalize_rel_path(rel))}
                     ELSE gs_yielded
    /\ UNCHANGED <<gs_tree, gs_opts, gs_pc, gs_all_paths, gs_walked, redVars, polVars,
                   ddVars, engVars, ghVars, cloneVars, rsVars, ldVars, rfVars, rqVars,
                   cmdVars>>

GitIgnoredByGlob(rel) ==
    gs_opts.ignore_globs # <<>> /\ any_glob_match(normalize_rel_path(rel), gs_opts.ignore_globs)

\* if _path_has_skip_dir(rel_norm, skip_dirs): continue
GitSkipsSkipDir(rel) ==
    /\ _path_has_skip_dir(normalize_rel_path(rel), gs_opts.skip_dirs)
    /\ GitIterStep(rel, FALSE)

\* if ignore_globs and any_glob_match(rel_norm, ignore_globs): continue
GitSkipsIgnoreGlob(rel) ==
    /\ ~_path_has_skip_dir(normalize_rel_path(rel), gs_opts.skip_dirs)
    /\ GitIgnoredByGlob(rel)
    /\ GitIterStep(rel, FALSE)

\* if not abs_path.is_file(): continue
GitSkipsNonFile(rel) ==
    /\ ~_path_has_skip_dir(normalize_rel_path(rel), gs_opts.skip_dirs)
    /\ ~GitIgnoredByGlob(rel)
    /\ ~IsFile(gs_tree, normalize_rel_path(rel))
    /\ GitIterStep(rel, FALSE)

\* yield FileCandidate(abs_path=str(abs_path), rel_path=rel_norm, ...)
GitYields(rel) ==
    /\ ~_path_has_skip_dir(normalize_rel_path(rel), gs_opts.skip_dirs)
    /\ ~GitIgnoredByGlob(rel)
    /\ IsFile(gs_tree, normalize_rel_path(rel))
    /\ GitIterStep(rel, TRUE)

(***************************************************************************)
(* Specifications                                                          *)
(***************************************************************************)
InitRedact == RedactInputs /\ PolicyIdle /\ DedupeIdle /\ EngineIdle /\ GithubIdle
    /\ CloneIdle /\ RulesetIdle /\ LoaderIdle /\ FilterIdle /\ RequestIdle
    /\ ScanCmdIdle /\ ScannersIdle
NextRedact == RedactValueCall
SpecRedact == InitRedact /\ [][NextRedact]_vars

InitDedupe == DedupeInputs /\ RedactIdle /\ PolicyIdle /\ EngineIdle /\ GithubIdle
    /\ CloneIdle /\ RulesetIdle /\ LoaderIdle /\ FilterIdle /\ RequestIdle
    /\ ScanCmdIdle /\ ScannersIdle
NextDedupe == DedupeFindingsCall
SpecDedupe == InitDedupe /\ [][NextDedupe]_vars

InitEngine == EngineInputs /\ RedactIdle /\ PolicyIdle /\ DedupeIdle /\ GithubIdle
    /\ CloneIdle /\ RulesetIdle /\ LoaderIdle /\ FilterIdle /\ RequestIdle
    /\ ScanCmdIdle /\ ScannersIdle
NextEngine ==
    \/ MaterializeCandidates
    \/ SkipBinary
    \/ SkipTooLarge
    \/ EvaluateFileReturns
    \/ EvaluateFileRaises
    \/ BaselineAbsent
    \/ BaselineSuppresses
    \/ BaselineRaises
    \/ ReturnDeduped
    \/ ReturnAsCollected
SpecEngine == InitEngine /\ [][NextEngine]_vars

InitGithub == GithubInputs /\ RedactIdle /\ PolicyIdle /\ DedupeIdle /\ EngineIdle
    /\ CloneIdle /\ RulesetIdle /\ LoaderIdle /\ FilterIdle /\ RequestIdle
    /\ ScanCmdIdle /\ ScannersIdle
NextGithub ==
    \/ ScanGithubRejects
    \/ ListAndSubmit
    \/ \E i \in DOMAIN gh_task :
          \/ CloneStart(i)
          \/ CloneDone(i)
          \/ CloneRaises(i)
          \/ ScanStart(i)
          \/ ScanDone(i)
          \/ ScanRaises(i)
          \/ CollectResult(i)
          \/ CollectError(i)
    \/ ScanGithubReturns
    \/ TemporaryDirectoryCleanup
SpecGithub == InitGithub /\ [][NextGithub]_vars

InitWorkspace == WorkspaceInputs /\ RedactIdle /\ PolicyIdle /\ DedupeIdle /\ EngineIdle
    /\ CloneIdle /\ RulesetIdle /\ LoaderIdle /\ FilterIdle /\ RequestIdle
    /\ ScanCmdIdle /\ ScannersIdle
SpecWorkspace == InitWorkspace /\ [][NextGithub]_vars

InitPolicy == PolicyInputs /\ RedactIdle /\ DedupeIdle /\ EngineIdle /\ GithubIdle
    /\ CloneIdle /\ RulesetIdle /\ LoaderIdle /\ FilterIdle /\ RequestIdle
    /\ ScanCmdIdle /\ ScannersIdle
NextPolicy ==
    \/ RuleSkippedByPath
    \/ FilenameRuleStep
    \/ RegexRuleStep
    \/ StructuredRuleStep
    \/ EvaluateFileReturn
SpecPolicy == InitPolicy /\ [][NextPolicy]_vars

InitClone ==
    /\ CloneInputs /\ RedactIdle /\ PolicyIdle /\ DedupeIdle /\ EngineIdle /\ GithubIdle
    /\ RulesetIdle /\ LoaderIdle /\ FilterIdle /\ RequestIdle /\ ScanCmdIdle
    /\ ScannersIdle
NextClone ==
    \/ CloneRepoRunsGit
    \/ CloneRepoReturns
    \/ CloneRepoRaises
SpecClone == InitClone /\ [][NextClone]_vars

InitRuleset ==
    /\ RulesetInputs /\ RedactIdle /\ PolicyIdle /\ DedupeIdle /\ EngineIdle /\ GithubIdle
    /\ CloneIdle /\ LoaderIdle /\ FilterIdle /\ RequestIdle /\ ScanCmdIdle
    /\ ScannersIdle
NextRuleset ==
    \/ BuildRulesetReturns
    \/ BuildRulesetRaises
SpecRuleset == InitRuleset /\ [][NextRuleset]_vars

InitLoader ==
    /\ LoaderInputs /\ RedactIdle /\ PolicyIdle /\ DedupeIdle /\ EngineIdle /\ GithubIdle
    /\ CloneIdle /\ RulesetIdle /\ FilterIdle /\ RequestIdle /\ ScanCmdIdle
    /\ ScannersIdle
NextLoader ==
    \/ LoadPackReturns
    \/ LoadPackRaises
    \/ MergeStarts
    \/ MergePack
    \/ BuildMerged
SpecLoader == InitLoader /\ [][NextLoader]_vars

InitFilter ==
    /\ FilterInputs /\ RedactIdle /\ PolicyIdle /\ DedupeIdle /\ EngineIdle /\ GithubIdle
    /\ CloneIdle /\ RulesetIdle /\ LoaderIdle /\ RequestIdle /\ ScanCmdIdle
    /\ ScannersIdle
NextFilter == RepoFilterApplyCall
SpecFilter == InitFilter /\ [][NextFilter]_vars

InitRequest ==
    /\ RequestInputs /\ RedactIdle /\ PolicyIdle /\ DedupeIdle /\ EngineIdle /\ GithubIdle
    /\ CloneIdle /\ RulesetIdle /\ LoaderIdle /\ FilterIdle /\ ScanCmdIdle
    /\ ScannersIdle
NextRequest ==
    \/ RequestReturns
    \/ RequestRetriesHttpError
    \/ RequestForbidden
    \/ RequestFails
    \/ RequestRetriesOtherError
    \/ RequestGivesUp
SpecRequest == InitRequest /\ [][NextRequest]_vars

InitScanCmd ==
    /\ ScanCmdInputs /\ RedactIdle /\ PolicyIdle /\ DedupeIdle /\ EngineIdle /\ GithubIdle
    /\ CloneIdle /\ RulesetIdle /\ LoaderIdle /\ FilterIdle /\ RequestIdle
    /\ ScannersIdle
NextScanCmd ==
    \/ ScanCmdExitsError
    \/ ScanCmdExitsFindings
    \/ ScanCmdExitsOk
SpecScanCmd == InitScanCmd /\ [][NextScanCmd]_vars

InitScanners ==
    /\ ScannersInputs /\ RedactIdle /\ PolicyIdle /\ DedupeIdle /\ EngineIdle /\ GithubIdle
    /\ CloneIdle /\ RulesetIdle /\ LoaderIdle /\ FilterIdle /\ RequestIdle /\ ScanCmdIdle
NextScanners ==
    \/ ScanPathWalks
    \/ ScanGitRepoLists
    \/ \E rel \in gs_rest :
          \/ GitSkipsSkipDir(rel)
          \/ GitSkipsIgnoreGlob(rel)
          \/ GitSkipsNonFile(rel)
          \/ GitYields(rel)
SpecScanners == InitScanners /\ [][NextScanners]_vars

(***************************************************************************)
(* Claims                                                                  *)
(***************************************************************************)
\* The rule of the rule set with the given id (ids are unique in a rule set).
PolRuleById(id) == CHOOSE r \in Range(pol_ruleset) : r.id = id

\* The positions of the findings a rule has emitted so far.
PolFindingsOf(id) == {i \in DOMAIN pol_findings : pol_findings[i].rule_id = id}

\* The raw match of a content finding: the last of the five hashed parts.
RawOf(f) == SplitLines(f.match_hash)[5]

\* Some allow regex of the rule occurs in the text.
AllowRegexMatches(rule, text) ==
    \E i \in DOMAIN rule.allow_regexes :
        RegexCompiles(rule.allow_regexes[i]) /\ regex_search(rule.allow_regexes[i], text)

\* C6: no finding comes from a rule whose allow_paths matches the candidate's
\* relative path; no content finding is for a raw match that one of the rule's
\* allow_regexes matches, and none with a line number is on a line that one of
\* them matches.
C6_AllowListsSuppress ==
    \A i \in DOMAIN pol_findings :
        LET f == pol_findings[i]
            r == PolRuleById(f.rule_id)
        IN /\ ~(\E j \in DOMAIN r.allow_paths : GlobMatch(r.allow_paths[j], PolRel))
           /\ f.kind = "content" =>
                /\ ~AllowRegexMatches(r, RawOf(f))
                /\ f.line # None =>
                     ~AllowRegexMatches(r, SplitLines(pol_text[1])[f.line[1]])

\* C6 witness: evaluate_file has returned for a line-scope rule with allow
\* regexes on a text with a line that an allow regex matches, and the rule
\* still emitted a finding from another line.
C6_Witness ==
    /\ pol_returned
    /\ \E r \in Range(PolRules) :
        /\ r.type = "regex" /\ r.scope = "line" /\ r.allow_regexes # <<>>
        /\ pol_text # None
        /\ \E k \in DOMAIN SplitLines(pol_text[1]) :
              /\ Len(SplitLines(pol_text[1])[k]) >= MinLineLen
              /\ regex_finditer(r.regex, SplitLines(pol_text[1])[k]) # <<>>
              /\ AllowRegexMatches(r, SplitLines(pol_text[1])[k])
        /\ PolFindingsOf(r.id) # {}

\* C7: a regex rule with max_matches = N has at most N findings per file, for
\* every N the rule model admits.
C7_MaxMatchesCap ==
    \A r \in Range(PolRules) :
        r.type = "regex" => Cardinality(PolFindingsOf(r.id)) <= r.max_matches

\* The structured rule of the claim: allowed_keys = {K}, forbidden_keys = {}.
OnlyAllowedKeyRule(r) ==
    r.type = "structured" /\ Len(r.allowed_keys) = 1 /\ r.forbidden_keys = <<>>

\* C8 as stated: a structured rule with allowed_keys = {K} and forbidden_keys =
\* {} emits no finding for K and none for any other key.
C8_NoFindingForAnyKey ==
    \A r \in Range(PolRules) : OnlyAllowedKeyRule(r) => PolFindingsOf(r.id) = {}

\* The keys of the parsed mapping that differ from the rule's allowed key (after
\* upper-casing when case_insensitive_keys) and whose value violates the policy.
OtherViolatingKeys(r) ==
    {it.k : it \in {x \in Range(pol_parsed.items) :
                      /\ NormKey(r, x.k) # NormKey(r, r.allowed_keys[1])
                      /\ _value_violates_policy(r.value_policy, x.v)}}

\* C8 amended: once evaluate_file has returned, such a rule (not filtered out by
\* its path lists, on a file whose parser returned a mapping) has a finding for
\* exactly the keys other than K whose value violates the value policy, and
\* none for K.
C8_OnlyAllowedKeySuppressed ==
    \A r \in Range(PolRules) :
        (/\ pol_returned /\ OnlyAllowedKeyRule(r) /\ ~RuleFilteredOut(PolRel, r)
         /\ pol_parsed.kind = "dict" /\ pol_text # None /\ pol_text # Some(<<>>))
        => {pol_findings[i].key : i \in PolFindingsOf(r.id)}
               = {Some(k) : k \in OtherViolatingKeys(r)}

\* C8 witness: the mapping holds the allowed key K and another key, and the
\* rule has emitted a finding for the other key only.
C8_Witness ==
    /\ pol_returned /\ pol_parsed.kind = "dict"
    /\ \E r \in Range(PolRules) :
        /\ OnlyAllowedKeyRule(r)
        /\ \E x \in Range(pol_parsed.items) : x.k = r.allowed_keys[1]
        /\ \E i \in PolFindingsOf(r.id) : pol_findings[i].key # Some(r.allowed_keys[1])
        /\ \A i \in PolFindingsOf(r.id) : pol_findings[i].key # Some(r.allowed_keys[1])

\* The last n characters of s, n >= 0 (none when n = 0).
LastChars(s, n) == SubSeq(s, Len(s) - Min(n, Len(s)) + 1, Len(s))

\* C9: for every string v without surrounding whitespace (where strip() is the
\* identity) and every keep >= 0, redact_value(v, keep) is the placeholder when v
\* is empty or len(v) <= 2*keep+2, and otherwise the first keep characters of v,
\* U+2026, and the last keep characters of v.
C9_RedactValueAsClaimed ==
    (rv_out # None /\ Strip(rv_value) = rv_value) =>
        rv_out[1] = IF rv_value = <<>> \/ Len(rv_value) <= 2 * rv_keep + 2
                    THEN REDACTED
                    ELSE PySliceTo(rv_value, rv_keep) \o <<ELLIPSIS>>
                         \o LastChars(rv_value, rv_keep)


(***************************************************************************)
(* Claims about _dedupe_findings                                           *)
(***************************************************************************)
C4Key(f) == <<f.target, f.file, f.rule_id, f.line, f.match_hash>>

\* (file, rule_id, line or 0, match_hash) of f is at most that of g.
C4Leq(f, g) ==
    LET fl == IF f.line = None THEN 0 ELSE f.line[1]
        gl == IF g.line = None THEN 0 ELSE g.line[1]
    IN IF f.file # g.file THEN LexLess(Ords(f.file), Ords(g.file))
       ELSE IF f.rule_id # g.rule_id THEN LexLess(Ords(f.rule_id), Ords(g.rule_id))
       ELSE IF fl # gl THEN fl < gl
       ELSE f.match_hash = g.match_hash
            \/ LexLess(Ords(f.match_hash), Ords(g.match_hash))

\* The first finding of the list that has the key k.
C4First(findings, k) ==
    findings[CHOOSE i \in DOMAIN findings :
                 /\ C4Key(findings[i]) = k
                 /\ \A j \in 1..(i - 1) : C4Key(findings[j]) # k]

\* C4: the list _dedupe_findings returns holds exactly one finding per distinct
\* key (target, file, rule_id, line, match_hash) of its input, that finding is
\* the first of the input with the key, and the list is in ascending order of
\* (file, rule_id, line or 0, match_hash).
C4_DedupeFirstPerKeySorted ==
    dd_out # None =>
        LET out == dd_out[1]
        IN /\ \A i, j \in DOMAIN out : C4Key(out[i]) = C4Key(out[j]) => i = j
           /\ {C4Key(out[i]) : i \in DOMAIN out}
                  = {C4Key(dd_findings[i]) : i \in DOMAIN dd_findings}
           /\ \A i \in DOMAIN out : out[i] = C4First(dd_findings, C4Key(out[i]))
           /\ \A i, j \in DOMAIN out : i < j => C4Leq(out[i], out[j])

\* A call that dropped a later finding with a repeated key and a different
\* sample, and moved the remaining findings into sort order.
C4_Witness ==
    /\ dd_out # None
    /\ Len(dd_findings) = 3 /\ Len(dd_out[1]) = 2
    /\ \E i, j \in DOMAIN dd_findings :
          /\ i < j
          /\ C4Key(dd_findings[i]) = C4Key(dd_findings[j])
          /\ dd_findings[i] # dd_findings[j]
    /\ dd_out[1][1] # dd_findings[1]

(***************************************************************************)
(* Claims about run_scan                                                   *)
(***************************************************************************)
\* The candidates the loop has been through.
EngVisited == SubSeq(eng_cand_list, 1, eng_i - 1)
EngStarted == eng_pc \in {"loop", "finish", "returned"}

RelPaths(cands) == [i \in DOMAIN cands |-> cands[i].rel_path]

C2Eligible(c) == c.is_binary = FALSE /\ c.size_bytes <= eng_config.max_file_bytes
C2Binary(c) == c.is_binary = TRUE
C2TooLarge(c) == c.is_binary = FALSE /\ c.size_bytes > eng_config.max_file_bytes

\* C2: evaluate_file is called for exactly the candidates that are not binary
\* and have size_bytes <= config.max_file_bytes (one of exactly max_file_bytes
\* included), in loop order; each binary candidate is counted in
\* files_skipped_binary only, and each other candidate above the limit in
\* files_skipped_too_large only.
C2_EvaluatedIffEligible ==
    EngStarted =>
        /\ eng_scan.evaluated = RelPaths(SelectSeq(EngVisited, C2Eligible))
        /\ eng_scan.stats.files_scanned = Len(SelectSeq(EngVisited, C2Eligible))
        /\ eng_scan.stats.files_skipped_binary = Len(SelectSeq(EngVisited, C2Binary))
        /\ eng_scan.stats.files_skipped_too_large = Len(SelectSeq(EngVisited, C2TooLarge))

\* A scan that returned after it evaluated a text file of exactly
\* max_file_bytes and skipped a text file one byte larger.
C2_Witness ==
    /\ eng_pc = "returned"
    /\ \E i, j \in DOMAIN eng_cand_list :
          /\ ~eng_cand_list[i].is_binary
          /\ eng_cand_list[i].size_bytes = eng_config.max_file_bytes
          /\ \E k \in DOMAIN eng_scan.evaluated :
                eng_scan.evaluated[k] = eng_cand_list[i].rel_path
          /\ ~eng_cand_list[j].is_binary
          /\ eng_cand_list[j].size_bytes = eng_config.max_file_bytes + 1
          /\ eng_scan.stats.files_skipped_too_large = 1
          /\ eng_scan.stats.files_scanned = 1

C3Raises(c) == C2Eligible(c) /\ c.eval.raises
C3Returns(c) == C2Eligible(c) /\ ~c.eval.raises
C3FileError(e) == e.message[1] = "Failed scanning file: "

RECURSIVE C3FindingsOf(_)
C3FindingsOf(cands) ==
    IF cands = <<>> THEN <<>>
    ELSE Head(cands).eval.findings \o C3FindingsOf(Tail(cands))

\* C3: each candidate whose evaluate_file raised has exactly one ScanError with
\* message "Failed scanning file: <rel_path>" and detail str(e); the loop goes
\* on to every later candidate; the findings collected are those of all the
\* candidates that did not raise, and the returned findings are the ones a
\* scan of only those candidates returns.
C3_RaiseIsOneErrorAndScanGoesOn ==
    EngStarted =>
        LET raised == SelectSeq(EngVisited, C3Raises)
        IN /\ SelectSeq(eng_scan.errors, C3FileError)
                  = [i \in DOMAIN raised |->
                        [target |-> TargetName,
                         message |-> <<"Failed scanning file: ", raised[i].rel_path>>,
                         detail |-> raised[i].eval.detail]]
           /\ eng_pc = "loop" =>
                  eng_scan.findings = C3FindingsOf(SelectSeq(EngVisited, C3Returns))
           /\ eng_pc = "returned" =>
                  /\ EngVisited = eng_cand_list
                  /\ eng_scan.evaluated = RelPaths(SelectSeq(eng_cand_list, C2Eligible))
                  /\ eng_scan.findings
                         = run_scan(TargetName,
                                    SelectSeq(eng_stream, LAMBDA c : ~C3Raises(c)),
                                    eng_config, eng_baseline, eng_dedupe).findings

\* A scan that returned the findings of a file it evaluated after the file
\* whose evaluation raised.
C3_Witness ==
    /\ eng_pc = "returned"
    /\ eng_baseline.kind = "none"
    /\ Len(eng_cand_list) = 2
    /\ C3Raises(eng_cand_list[1])
    /\ C3Returns(eng_cand_list[2])
    /\ Len(eng_scan.errors) = 1
    /\ \E k \in DOMAIN eng_scan.findings :
          eng_scan.findings[k].file = eng_cand_list[2].rel_path

\* The stream in every order of delivery.
StreamOrders(stream) ==
    {[i \in DOMAIN stream |-> stream[p[i]]] : p \in Permutations(DOMAIN stream)}

\* C5: with config.deterministic = true the returned findings list is the one
\* run_scan returns for the same candidates delivered in any other order (same
\* target, config, baseline and dedupe).
C5_DeterministicIgnoresStreamOrder ==
    (eng_pc = "returned" /\ eng_config.deterministic) =>
        \A other \in StreamOrders(eng_stream) :
            run_scan(TargetName, other, eng_config, eng_baseline, eng_dedupe).findings
                = eng_scan.findings

\* A deterministic scan without dedupe whose stream delivered two files with
\* findings in the reverse of rel_path order.
C5_Witness ==
    /\ eng_pc = "returned"
    /\ eng_config.deterministic /\ ~eng_dedupe /\ eng_baseline.kind = "none"
    /\ Len(eng_stream) = 2
    /\ eng_cand_list # eng_stream
    /\ C3Returns(eng_stream[1]) /\ C3Returns(eng_stream[2])
    /\ Len(eng_scan.findings) > 1

(***************************************************************************)
(* Claims about scan_github                                                *)
(***************************************************************************)
GhFailed(i) == gh_task[i].error # ""
GhResultsOf(i) ==
    {k \in DOMAIN gh_results : gh_results[k].target = gh_repos[i].full_name}

\* C1: scan_github returns exactly one ScanResult per repository that
\* RepoFilter.apply kept; the one of a repository whose clone or scan raised
\* has no findings and exactly one ScanError, with target the full_name and
\* message "GitHub repo scan failed"; the one of any other repository is the
\* ScanResult its scan returned.
C1_OneResultPerRepo ==
    gh_pc = "returned" =>
        /\ gh_repos = RepoFilterApply(gh_filter, gh_listing)
        /\ Len(gh_results) = Len(gh_repos)
        /\ \A i \in DOMAIN gh_repos :
              /\ Cardinality(GhResultsOf(i)) = 1
              /\ \A k \in GhResultsOf(i) :
                    IF GhFailed(i)
                    THEN /\ gh_results[k].findings = <<>>
                         /\ Len(gh_results[k].errors) = 1
                         /\ gh_results[k].errors[1].target = gh_repos[i].full_name
                         /\ gh_results[k].errors[1].message
                                = <<"GitHub repo scan failed", <<>>>>
                    ELSE /\ gh_task[i].result # None
                         /\ gh_results[k] = gh_task[i].result[1]

\* A returned call with two repositories: one failed, the other has findings.
C1_Witness ==
    /\ gh_pc = "returned"
    /\ Len(gh_repos) = 2
    /\ \E i, j \in DOMAIN gh_repos :
          /\ GhFailed(i)
          /\ ~GhFailed(j)
          /\ \E k \in GhResultsOf(j) : gh_results[k].findings # <<>>

C10Lifecycle == <<"clone_start", "clone_done", "scan_start", "scan_done">>
IsPrefix(p, s) == Len(p) <= Len(s) /\ p = SubSeq(s, 1, Len(p))

\* C10: the events the callback gets for one repository are, in this order,
\* clone_start, clone_done, scan_start, scan_done, or a prefix of the first
\* three followed by repo_error; a repository that failed never gets scan_done;
\* once scan_github has returned every repository has got exactly one of
\* scan_done and repo_error, as its last event.
C10_EventOrder ==
    gh_on_event =>
        \A i \in DOMAIN gh_events :
            LET ev == gh_events[i]
                n == Len(ev)
            IN /\ \/ IsPrefix(ev, C10Lifecycle)
                  \/ /\ n > 0
                     /\ ev[n] = "repo_error"
                     /\ IsPrefix(SubSeq(ev, 1, n - 1), SubSeq(C10Lifecycle, 1, 3))
               /\ GhFailed(i) => \A k \in DOMAIN ev : ev[k] # "scan_done"
               /\ gh_pc = "returned" =>
                     /\ {k \in DOMAIN ev : ev[k] \in {"scan_done", "repo_error"}} = {n}
                     /\ ev[n] = IF GhFailed(i) THEN "repo_error" ELSE "scan_done"

\* A returned call in which one repository got all four events and another
\* got clone_start and repo_error.
C10_Witness ==
    /\ gh_pc = "returned"
    /\ gh_on_event
    /\ \E i, j \in DOMAIN gh_events :
          /\ gh_events[i] = C10Lifecycle
          /\ gh_events[j] = <<"clone_start", "repo_error">>

(***************************************************************************)
(* Claims about the clone directories                                      *)
(***************************************************************************)
\* The tasks that are inside clone_repo or _scan_one_repo: they delete, clone
\* into or scan their destination directory.
GhUsingDest == {i \in DOMAIN gh_task : gh_task[i].pc \in {"cloning", "cloned", "scanning"}}

\* C11: the tasks of one scan_github call have pairwise distinct clone
\* destinations <clones>/<owner_login>__<name>, so two tasks that run at the
\* same time never work on the same directory.
C11_CloneDirsDistinct ==
    /\ \A i, j \in DOMAIN gh_repos :
          i # j => SafeDir(gh_repos[i]) # SafeDir(gh_repos[j])
    /\ \A i, j \in GhUsingDest :
          i # j => SafeDir(gh_repos[i]) # SafeDir(gh_repos[j])

\* Two tasks of repositories of the same owner are cloning at the same time.
C11_Witness ==
    \E i, j \in GhUsingDest :
        /\ i # j
        /\ gh_repos[i].owner_login = gh_repos[j].owner_login
        /\ gh_task[i].pc = "cloning" /\ gh_task[j].pc = "cloning"

(***************************************************************************)
(* C12: the workspace after scan_github has returned                       *)
(***************************************************************************)
\* C12: when opts.keep_clones is true, after scan_github has returned the
\* workspace directory and the clones made under it still exist, with a
\* caller-supplied tmp_dir and with an automatically allocated directory.
C12_KeptWorkspaceExists ==
    (gh_pc = "returned" /\ gh_opts.keep_clones) =>
        /\ gh_fs.workspace
        /\ \A i \in DOMAIN gh_task :
              gh_task[i].error # "clone failed" => i \in gh_fs.clones

(***************************************************************************)
(* C13: the git clone command line                                         *)
(***************************************************************************)
\* The git command has been invoked with cl_args and cl_env.
ClInvoked == cl_pc \in {"git", "returned", "raised"}
ClHasToken == cl_token # None /\ cl_token[1] # <<>>
\* Where the URL argument stands: the last but one of "clone ... <url> <dest>".
ClUrlArg == cl_args[Len(cl_args) - 1]

\* C13: in every git clone invocation of clone_repo the URL argument is
\* exactly repo.clone_url and does not contain the token; a supplied token
\* occurs only in the argument that follows -c, which is
\* http.extraheader=AUTHORIZATION: bearer <token>; and the environment of the
\* clone has GIT_TERMINAL_PROMPT=0 (and no other value for it).
C13_TokenOnlyInExtraHeader ==
    ClInvoked =>
        /\ ClUrlArg = cl_repo.clone_url
        /\ ClHasToken =>
              /\ ~Contains(ClUrlArg, cl_token[1])
              /\ cl_args[1] = S_c
              /\ cl_args[2] = S_extraheader \o S_bearer \o cl_token[1]
              /\ \A k \in DOMAIN cl_args : Contains(cl_args[k], cl_token[1]) => k = 2
        /\ ~ClHasToken => \A k \in DOMAIN cl_args : cl_args[k] # S_c
        /\ \A p \in cl_env : p[1] = GIT_TERMINAL_PROMPT => p[2] = "0"
        /\ <<GIT_TERMINAL_PROMPT, "0">> \in cl_env

C13_Witness ==
    /\ cl_pc = "returned" /\ ClHasToken
    /\ cl_opts.shallow /\ cl_opts.blobless
    /\ <<GIT_TERMINAL_PROMPT, "1">> \in cl_environ

(***************************************************************************)
(* C14: the baseline step of run_scan                                      *)
(***************************************************************************)
C14BaselineError(e) == e.message[1] = "Baseline suppression failed"
\* The findings list run_scan holds when it reaches the baseline block.
C14Collected == C3FindingsOf(SelectSeq(eng_cand_list, C3Returns))

\* C14: once run_scan is past the baseline block, a baseline whose suppress
\* raised has left exactly one ScanError "Baseline suppression failed" (the
\* last error, with the target's name and str(e)) and the findings list as it
\* was before the call; a suppress that returned has left its result as the
\* findings list and no such error.
C14_BaselineRaiseKeepsFindings ==
    eng_pc = "finish" =>
        LET errs == SelectSeq(eng_scan.errors, C14BaselineError)
        IN /\ eng_baseline.kind = "raises" =>
                 /\ errs = <<[target |-> TargetName,
                              message |-> <<"Baseline suppression failed", <<>>>>,
                              detail |-> eng_baseline.detail]>>
                 /\ eng_scan.errors[Len(eng_scan.errors)] = errs[1]
                 /\ eng_scan.findings = C14Collected
           /\ eng_baseline.kind = "suppresses" =>
                 /\ errs = <<>>
                 /\ eng_scan.findings
                        = SelectSeq(C14Collected,
                                    LAMBDA f : f.match_hash \notin eng_baseline.known)
           /\ eng_baseline.kind = "none" =>
                 errs = <<>> /\ eng_scan.findings = C14Collected

\* A scan whose baseline raised after findings had been collected and a file
\* had failed.
C14_Witness ==
    /\ eng_pc = "finish"
    /\ eng_baseline.kind = "raises"
    /\ eng_scan.findings # <<>>
    /\ Len(eng_scan.errors) = 2

(***************************************************************************)
(* Claims about build_ruleset                                              *)
(***************************************************************************)
SeverityRank(severity) ==
    CASE severity = "critical" -> 4 [] severity = "high" -> 3
      [] severity = "medium" -> 2 [] severity = "low" -> 1

\* i < j for the positions of two rules in the argument of build_ruleset
BrBefore(a, b) ==
    \E i, j \in DOMAIN br_rules : i < j /\ br_rules[i] = a /\ br_rules[j] = b

\* C16: the RuleSet build_ruleset returns holds exactly the enabled rules of
\* its input, each id at most once, ordered critical, high, medium, low, and
\* rules of equal severity in the order of the input.
C16_EnabledBySeverityDescending ==
    br_pc = "returned" =>
        LET out == br_result.rules
        IN /\ Range(out) = {r \in Range(br_rules) : r.enabled}
           /\ \A i, j \in DOMAIN out : out[i].id = out[j].id => i = j
           /\ \A i, j \in DOMAIN out :
                 i < j =>
                    \/ SeverityRank(out[i].severity) > SeverityRank(out[j].severity)
                    \/ /\ out[i].severity = out[j].severity
                       /\ BrBefore(out[i], out[j])

\* The keys of a list as the evaluation of the rule compares them.
C20Keys(r, keys) == {NormKey(r, keys[i]) : i \in DOMAIN keys}
C20FoldedKeys(keys) == {Upper(keys[i]) : i \in DOMAIN keys}
C20Structured(rules) == {r \in Range(rules) : r.type = "structured"}

\* C20 as stated: every structured rule of an accepted RuleSet has
\* forbidden_keys and allowed_keys disjoint after case-folding, whether or not
\* case_insensitive_keys is set, and an input with an enabled rule whose lists
\* share a key up to case is rejected.
C20_KeysDisjointUpToCase ==
    /\ br_pc = "returned" =>
          \A r \in C20Structured(br_result.rules) :
              C20FoldedKeys(r.forbidden_keys) \cap C20FoldedKeys(r.allowed_keys) = {}
    /\ (/\ br_pc \in {"returned", "raised"}
        /\ \E r \in C20Structured(br_rules) :
              /\ r.enabled
              /\ C20FoldedKeys(r.forbidden_keys) \cap C20FoldedKeys(r.allowed_keys) # {})
          => br_pc = "raised"

\* C20, amended: the two key lists of every structured rule of an accepted
\* RuleSet are disjoint as the rule compares keys (upper-cased when
\* case_insensitive_keys is set, as written otherwise), and an input with an
\* enabled rule whose lists overlap in that comparison is rejected.
C20_KeysDisjointAsCompared ==
    /\ br_pc = "returned" =>
          \A r \in C20Structured(br_result.rules) :
              C20Keys(r, r.forbidden_keys) \cap C20Keys(r, r.allowed_keys) = {}
    /\ (/\ br_pc \in {"returned", "raised"}
        /\ \E r \in C20Structured(br_rules) :
              /\ r.enabled
              /\ C20Keys(r, r.forbidden_keys) \cap C20Keys(r, r.allowed_keys) # {})
          => br_pc = "raised"

\* An accepted RuleSet with a case-sensitive rule whose lists hold k and K.
C20_Witness ==
    /\ br_pc = "returned"
    /\ \E r \in C20Structured(br_result.rules) :
          /\ ~r.case_insensitive_keys
          /\ r.forbidden_keys # <<>> /\ r.allowed_keys # <<>>
          /\ C20FoldedKeys(r.forbidden_keys) = C20FoldedKeys(r.allowed_keys)

(***************************************************************************)
(* C15: merging the rule packs                                             *)
(***************************************************************************)
\* The packs merged so far.
LdMergedPacks == SubSeq(ld_packs, 1, IF ld_pc = "merge" THEN ld_i - 1 ELSE Len(ld_packs))
LdDefines(pack, id) == \E k \in DOMAIN pack : pack[k].id = id
\* The pack of highest precedence among the merged ones that defines the id.
LdLastPack(id) ==
    LET ps == LdMergedPacks
        p == CHOOSE p \in DOMAIN ps :
                 /\ LdDefines(ps[p], id)
                 /\ \A q \in DOMAIN ps : LdDefines(ps[q], id) => q <= p
    IN ps[p]
\* Where the id is defined first: the pack and the position in it.
LdFirstDef(id) ==
    LET ps == LdMergedPacks
        p == CHOOSE p \in DOMAIN ps :
                 /\ LdDefines(ps[p], id)
                 /\ \A q \in DOMAIN ps : LdDefines(ps[q], id) => p <= q
        k == CHOOSE k \in DOMAIN ps[p] : ps[p][k].id = id
    IN <<p, k>>

\* C15: after merging the packs in the order builtin, global, repository,
\* extra files, the merged list has unique ids, holds every id some pack
\* defines, gives each id the whole rule (enabled bit included) of the
\* highest-precedence pack defining it, and orders the ids by where they were
\* first defined: an overridden rule stays in place, new ids follow in the
\* order they are introduced.
C15_MergeByPrecedence ==
    ld_pc \in {"merge", "returned"} =>
        LET ps == LdMergedPacks
            ids == UNION {{ps[p][k].id : k \in DOMAIN ps[p]} : p \in DOMAIN ps}
        IN /\ \A i, j \in DOMAIN ld_merged : ld_merged[i].id = ld_merged[j].id => i = j
           /\ {ld_merged[i].id : i \in DOMAIN ld_merged} = ids
           /\ \A i \in DOMAIN ld_merged :
                 \E k \in DOMAIN LdLastPack(ld_merged[i].id) :
                    LdLastPack(ld_merged[i].id)[k] = ld_merged[i]
           /\ \A i, j \in DOMAIN ld_merged :
                 i < j =>
                    LET a == LdFirstDef(ld_merged[i].id)
                        b == LdFirstDef(ld_merged[j].id)
                    IN a[1] < b[1] \/ (a[1] = b[1] /\ a[2] < b[2])

\* A load that returned after three packs were merged: the last one overrode
\* an enabled builtin rule by a disabled one, the one before introduced two
\* new ids.
C15_Witness ==
    /\ ld_pc = "returned"
    /\ Len(ld_packs) = 3
    /\ ld_packs[2] = <<Rule_C, Rule_A_low>>
    /\ ld_packs[3] = <<Rule_A_off>>
    /\ ld_merged = <<Rule_A_off, Rule_B_off, Rule_C>>

(***************************************************************************)
(* C17: RepoFilter.apply                                                   *)
(***************************************************************************)
\* The repository is kept, as the claim words it.
C17Kept(r) ==
    /\ rf_filter.repos = <<>>
       \/ \E i \in DOMAIN rf_filter.repos : Lower(rf_filter.repos[i]) = Lower(r.full_name)
    /\ r.archived => rf_filter.include_archived
    /\ r.fork => rf_filter.include_forks
    /\ r.disabled => rf_filter.include_disabled
    /\ \A i \in DOMAIN rf_filter.exclude : ~GlobMatch(rf_filter.exclude[i], r.full_name)
    /\ rf_filter.include = <<>>
       \/ \E i \in DOMAIN rf_filter.include : GlobMatch(rf_filter.include[i], r.full_name)

\* a sorts before b by (full_name, id)
C17Before(a, b) ==
    \/ LexLess(Ords(a.full_name), Ords(b.full_name))
    \/ a.full_name = b.full_name /\ a.id < b.id

C17Survivors == {r \in Range(rf_repos) : C17Kept(r)}

\* C17: the result of RepoFilter.apply is sorted by (full_name, id) and holds
\* only survivors of the filter; without max_repos it holds all of them; with
\* max_repos it is the first max_repos of the sorted survivors (all of them
\* when there are fewer) and its length never exceeds max_repos.
C17_FilterSortClamp ==
    rf_out # None =>
        LET out == rf_out[1]
            n == Cardinality(C17Survivors)
        IN /\ Range(out) \subseteq C17Survivors
           /\ \A i, j \in DOMAIN out : i < j => C17Before(out[i], out[j])
           /\ \A r \in C17Survivors \ Range(out) :
                 \A i \in DOMAIN out : C17Before(out[i], r)
           /\ rf_filter.max_repos = None => Len(out) = n
           /\ rf_filter.max_repos # None =>
                 /\ Len(out) <= rf_filter.max_repos[1]
                 /\ Len(out) = Min(n, rf_filter.max_repos[1])

(***************************************************************************)
(* C18: the retries of _request_json                                       *)
(***************************************************************************)
C18Transient(status) == status \in {429, 500, 502, 503, 504}
C18Last == rq_log[Len(rq_log)]

\* C18: _request_json makes at most 3 attempts; each 429/500/502/503/504
\* response is followed by a pause of 0.5 * (attempt + 1) seconds (2, 4, 6
\* quarters of a second after the first, second, third attempt) and, before
\* the third, by another attempt; a 403 ends the call at once with the
\* forbidden error carrying status and body; any other 4xx ends it at once
\* with the request-failed error; and three failed attempts end it with an
\* error instead of a fourth attempt.
C18_AtMostThreeAttempts ==
    /\ Len(rq_log) <= 3
    /\ \A k \in DOMAIN rq_log :
          /\ C18Transient(rq_log[k].status) =>
                /\ k \in DOMAIN rq_sleeps /\ rq_sleeps[k] = 2 * k
                /\ (k < 3 /\ k = Len(rq_log)) => rq_pc = "loop"
          /\ rq_log[k].status = 403 =>
                /\ k = Len(rq_log) /\ rq_pc = "raised" /\ Len(rq_sleeps) = k - 1
                /\ rq_result = Some([message |-> "GitHub API forbidden",
                                     status |-> Some(403), detail |-> rq_log[k].body])
          /\ (rq_log[k].status \in 400..499 /\ rq_log[k].status \notin {403, 429}) =>
                /\ k = Len(rq_log) /\ rq_pc = "raised" /\ Len(rq_sleeps) = k - 1
                /\ rq_result = Some([message |-> "GitHub API request failed.",
                                     status |-> Some(rq_log[k].status),
                                     detail |-> rq_log[k].body])
    /\ (rq_pc = "raised" /\ Len(rq_log) = 3 /\ C18Last.status \in {0} \cup {429, 500, 502, 503, 504})
          => rq_result[1].message = "GitHub API request failed after retries."

\* A call that raised after three transient responses, the last a 503.
C18_Witness ==
    /\ rq_pc = "raised"
    /\ Len(rq_log) = 3
    /\ \A k \in DOMAIN rq_log : C18Transient(rq_log[k].status)
    /\ C18Last.status = 503
    /\ rq_sleeps = <<2, 4, 6>>

(***************************************************************************)
(* C19: the exit code of the scan command                                  *)
(***************************************************************************)
C19HasFindings == cmd_result.findings # <<>>
C19HasErrors == cmd_result.errors # <<>>

\* C19 as stated: the scan command exits with 0 when the ScanResult has no
\* findings and no errors, with 1 when findings are present, and with 2 when
\* errors are present (2 when both are, the error check coming first in the
\* command).
C19_ExitCodeByResult ==
    cmd_exit # None =>
        /\ (~C19HasFindings /\ ~C19HasErrors) => cmd_exit = Some(0)
        /\ (C19HasFindings /\ ~C19HasErrors) => cmd_exit = Some(1)
        /\ C19HasErrors => cmd_exit = Some(2)

\* C19, amended: the exit code is 2 when errors are present and
\* --ignore-errors is not given; otherwise 1 when findings are present and
\* --no-fail is not given; otherwise 0. With the default options that is 0
\* for a clean result, 1 for findings without errors, 2 for errors.
C19_ExitCodeByResultAndOptions ==
    cmd_exit # None =>
        /\ cmd_exit = Some(2) <=> (C19HasErrors /\ ~cmd_ignore_errors)
        /\ cmd_exit = Some(1) <=>
              (C19HasFindings /\ cmd_fail /\ ~(C19HasErrors /\ ~cmd_ignore_errors))
        /\ cmd_exit \in {Some(0), Some(1), Some(2)}
        /\ (cmd_fail /\ ~cmd_ignore_errors) =>
              /\ (~C19HasFindings /\ ~C19HasErrors) => cmd_exit = Some(0)
              /\ (C19HasFindings /\ ~C19HasErrors) => cmd_exit = Some(1)
              /\ C19HasErrors => cmd_exit = Some(2)

\* The command has exited with 2 for a result with findings and errors.
C19_Witness ==
    /\ cmd_exit = Some(2)
    /\ C19HasFindings /\ C19HasErrors
    /\ cmd_fail /\ ~cmd_ignore_errors

(***************************************************************************)
(* C26, C28: the returned ScanResult                                       *)
(***************************************************************************)
C26Raised == Len(SelectSeq(eng_cand_list, C3Raises))
C26Returned == Len(SelectSeq(eng_cand_list, C3Returns))
C26TooLarge == Len(SelectSeq(eng_cand_list, C2TooLarge))

\* C26: in the ScanResult run_scan returns, files_considered = files_scanned
\* + files_skipped_binary + files_skipped_too_large, and files_scanned counts
\* each candidate evaluate_file was called for exactly once, whether the call
\* returned or raised.
C26_StatsAddUp ==
    eng_pc = "returned" =>
        LET stats == eng_scan.stats
        IN /\ stats.files_considered
                  = stats.files_scanned + stats.files_skipped_binary
                        + stats.files_skipped_too_large
           /\ stats.files_considered = Len(eng_stream)
           /\ stats.files_scanned = C26Raised + C26Returned
           /\ C26Raised = Len(SelectSeq(eng_scan.errors, C3FileError))

\* A returned scan of two candidates: one whose evaluation raised, one skipped
\* as too large.
C26_Witness ==
    /\ eng_pc = "returned"
    /\ C26Raised = 1 /\ C26TooLarge = 1
    /\ eng_scan.stats.files_considered = 2
    /\ eng_scan.stats.files_scanned = 1
    /\ eng_scan.stats.files_skipped_too_large = 1

\* C28: with dedupe = true and baseline = None the returned findings list is
\* the one run_scan returns for the same candidates delivered in any other
\* order, whether config.deterministic is set or not.
C28_DedupedIgnoresStreamOrder ==
    (eng_pc = "returned" /\ eng_dedupe /\ eng_baseline.kind = "none") =>
        \A other \in StreamOrders(eng_stream) :
            run_scan(TargetName, other, eng_config, eng_baseline, TRUE).findings
                = eng_scan.findings

\* A scan with deterministic = false and dedupe that was given two files with
\* findings in the reverse of rel_path order, and dropped a repeated finding.
C28_Witness ==
    /\ eng_pc = "returned"
    /\ ~eng_config.deterministic /\ eng_dedupe /\ eng_baseline.kind = "none"
    /\ Len(eng_stream) = 2
    /\ eng_cand_list = eng_stream
    /\ SortCandidates(eng_stream) # eng_stream
    /\ C3Returns(eng_stream[1]) /\ C3Returns(eng_stream[2])
    /\ Len(eng_scan.findings) > 1
    /\ Len(eng_scan.findings) < Len(C3FindingsOf(eng_stream))

(***************************************************************************)
(* C22, C23: structured rules                                              *)
(***************************************************************************)
C22Vault == <<"v", "a", "u", "l", "t", ":", "/", "/">>
C22Trimmed(v) == IF v = None THEN <<>> ELSE Strip(v[1])
C22Begins(t, p) == Len(t) >= Len(p) /\ SubSeq(t, 1, Len(p)) = p

\* The value_policy table of the claim.
C22Violates(policy, v) ==
    LET t == C22Trimmed(v)
    IN \/ policy = "any"
       \/ policy = "non_empty" /\ t # <<>>
       \/ policy = "must_reference_env" /\ ~C22Begins(t, <<"$">>)
       \/ policy = "must_reference_vault" /\ ~C22Begins(t, C22Vault)
       \/ /\ policy = "plaintext"
          /\ Len(t) >= 12
          /\ ~C22Begins(t, <<"$">>) /\ ~C22Begins(t, C22Vault)
          /\ \E i \in DOMAIN t : IsAlpha(t[i])
          /\ \E i \in DOMAIN t : IsDigit(t[i]) \/ t[i] \in {"_", "-", "+", "/", "=", "."}

\* The structured rule r was applied to the parsed mapping of the file.
C22Applied(r) ==
    /\ pol_returned /\ r.type = "structured" /\ ~RuleFilteredOut(PolRel, r)
    /\ pol_parsed.kind = "dict" /\ pol_text # None /\ pol_text # Some(<<>>)

C22FindingsFor(r, k) == {i \in PolFindingsOf(r.id) : pol_findings[i].key = Some(k)}

\* C22: for a key that passes the allowed/forbidden gates, a structured rule
\* emits a finding (exactly one) iff the value violates value_policy as
\* tabulated; a null value counts as the empty string, and its finding has no
\* value_hint, while every other finding has one.
C22_ValuePolicyTable ==
    \A r \in Range(PolRules) :
        C22Applied(r) =>
            \A x \in Range(pol_parsed.items) :
                KeyPassesGates(r, x.k) =>
                    /\ Cardinality(C22FindingsFor(r, x.k))
                           = IF C22Violates(r.value_policy, x.v) THEN 1 ELSE 0
                    /\ \A i \in C22FindingsFor(r, x.k) :
                           (pol_findings[i].value_hint = None) <=> (x.v = None)

\* A must_reference_env rule has emitted a finding without value_hint for a
\* key whose value is null.
C22_Witness ==
    \E r \in Range(PolRules) :
        /\ C22Applied(r) /\ r.value_policy = "must_reference_env"
        /\ \E x \in Range(pol_parsed.items) :
              /\ KeyPassesGates(r, x.k) /\ x.v = None
              /\ \E i \in C22FindingsFor(r, x.k) : pol_findings[i].value_hint = None

\* The structured rule r reached its parser, and the parser raised or
\* returned something that is not a mapping.
C23ParserFailed(r) ==
    /\ r.type = "structured" /\ ~RuleFilteredOut(PolRel, r)
    /\ pol_text # None /\ pol_text # Some(<<>>)
    /\ pol_parsed.kind \in {"raise", "nondict"}

C23RuleIds == [i \in DOMAIN pol_findings |-> pol_findings[i].rule_id]
C23OtherRules(r) == SelectSeq(PolRules, LAMBDA q : q # r)

\* C23: when the structured parser raises or returns a non-mapping, the
\* structured rule adds no finding, evaluate_file goes on to the remaining
\* rules and returns (it does not raise, so run_scan records no ScanError), and
\* the findings are those of the other rules, the earlier ones included: here
\* one finding of each filename rule around the structured rule, in rule order.
C23_ParserFailureIsSilent ==
    \A k \in DOMAIN PolRules :
        C23ParserFailed(PolRules[k]) =>
            /\ PolFindingsOf(PolRules[k].id) = {}
            /\ pol_i > k =>
                  \A j \in 1..(k - 1) :
                      PolRules[j].type = "filename" => PolFindingsOf(PolRules[j].id) # {}
            /\ pol_i = k + 1 => ~pol_returned \/ k = Len(PolRules)
            /\ pol_returned =>
                  /\ pol_i = Len(PolRules) + 1
                  /\ C23RuleIds
                         = [j \in DOMAIN C23OtherRules(PolRules[k]) |->
                                C23OtherRules(PolRules[k])[j].id]

\* evaluate_file returned the findings of the rules before and after a
\* structured rule whose parser raised.
C23_Witness ==
    /\ pol_returned
    /\ Len(PolRules) = 3
    /\ C23ParserFailed(PolRules[2])
    /\ pol_parsed.kind = "raise"
    /\ C23RuleIds = <<PolRules[1].id, PolRules[3].id>>

\* The same for a parser that returned a list.
C23_WitnessNonMapping ==
    /\ pol_returned
    /\ Len(PolRules) = 3
    /\ C23ParserFailed(PolRules[2])
    /\ pol_parsed = PairList
    /\ C23RuleIds = <<PolRules[1].id, PolRules[3].id>>

(***************************************************************************)
(* C27: the token and the error of a failed clone                          *)
(***************************************************************************)
\* C27: the message of the exception clone_repo raises (which scan_github
\* stores as the ScanError detail and passes to on_event as str(e)) does not
\* contain the access token.
C27_TokenNotInCloneError ==
    (cl_pc = "raised" /\ ClHasToken) => ~Contains(cl_error[1], cl_token[1])

(***************************************************************************)
(* C24: the target selector of scan_github                                 *)
(***************************************************************************)
GhListed == gh_pc \in {"collecting", "returned"}

\* C24: scan_github lists repositories only when exactly one of opts.org and
\* opts.user is set; with neither or with both it has raised before listing.
C24_ExactlyOneSelector ==
    /\ GhListed => ((gh_opts.org = None) # (gh_opts.user = None))
    /\ (gh_pc # "start" /\ (gh_opts.org = None) = (gh_opts.user = None)) => gh_pc = "raised"

(***************************************************************************)
(* C29: the parts digested into match_hash                                 *)
(***************************************************************************)
\* What tells two emissions of one file apart, as far as the finding records
\* it: rule id, kind, and the line number or the structured key.
C29Emission(f) == <<f.rule_id, f.kind, f.line, f.key>>

\* C29: two findings of one file that differ in rule id, kind or
\* disambiguator have different match_hash inputs (so that dedupe, whose key
\* is target, file, rule id, line and match_hash, keeps both).
C29_DistinctEmissionsDistinctHash ==
    pol_returned =>
        \A i, j \in DOMAIN pol_findings :
            C29Emission(pol_findings[i]) # C29Emission(pol_findings[j])
                => /\ pol_findings[i].match_hash # pol_findings[j].match_hash
                   /\ DedupeKey(pol_findings[i]) # DedupeKey(pol_findings[j])

(***************************************************************************)
(* C21, C25, C30: the Git and filesystem enumerators                       *)
(***************************************************************************)
GsListed == gs_pc = "iter"
GsDone == gs_pc = "iter" /\ gs_rest = {}
GsPathsOf(status) == {e.path : e \in {x \in gs_tree : x.status = status}}
GsWantsIgnored ==
    IF gs_opts.include_ignored = None THEN gs_opts.config_include_ignored
    ELSE gs_opts.include_ignored = Some(TRUE)

\* C21: the path set of scan_git_repo is the tracked listing, with the
\* untracked-not-ignored listing iff include_untracked, and with the ignored
\* listing iff include_ignored (config.include_ignored when the argument is
\* None), whatever include_untracked is.
C21_ListingsUnion ==
    GsListed =>
        gs_all_paths
            = GsPathsOf("tracked")
              \cup (IF gs_opts.include_untracked THEN GsPathsOf("untracked") ELSE {})
              \cup (IF GsWantsIgnored THEN GsPathsOf("ignored") ELSE {})

\* C25: for a tree of tracked regular files and no ignore_globs, scan_path
\* and scan_git_repo yield the same set of relative paths.
C25_SameRelativePaths ==
    (/\ GsDone
     /\ \A e \in gs_tree : e.status = "tracked" /\ e.kind = "file"
     /\ gs_opts.ignore_globs = <<>>)
    => {c.rel_path : c \in gs_walked} = {c.rel_path : c \in gs_yielded}

\* C30: scan_git_repo yields no candidate whose abs_path is a symbolic link
\* or resolves to a file outside the repository root.
C30_NoSymlinkCandidates ==
    \A c \in gs_yielded : c.kind \notin {"link_inside", "link_outside"}

=============================================================================
